---------------------------- MODULE Spec2Model ----------------------------
(***************************************************************************)
(* Model of the Viha return-gift bot: the requirement extractor            *)
(* (extract_customer_requirements), the LangGraph dialogue nodes and       *)
(* routers of complete_bot.py, and ProductionVihaBot.chat.                 *)
(*                                                                         *)
(* Text is modelled character by character: a Python str is a sequence of  *)
(* one-character strings, so that the substring tests and regular          *)
(* expressions of the source are computed, not assumed.  The rupee sign    *)
(* is written "RUPEE".                                                     *)
(***************************************************************************)
EXTENDS Integers, Sequences, FiniteSets, TLC

(***************************************************************************)
(* Characters and Python str helpers                                       *)
(***************************************************************************)
DigitSeq == <<"0","1","2","3","4","5","6","7","8","9">>

LowerLetters ==
  <<"a","b","c","d","e","f","g","h","i","j","k","l","m",
    "n","o","p","q","r","s","t","u","v","w","x","y","z">>

UpperLetters ==
  <<"A","B","C","D","E","F","G","H","I","J","K","L","M",
    "N","O","P","Q","R","S","T","U","V","W","X","Y","Z">>

Range(f) == {f[i] : i \in DOMAIN f}

Digits == Range(DigitSeq)

IsDigit(c) == c \in Digits

IsLower(c) == c \in Range(LowerLetters)

IsUpper(c) == c \in Range(UpperLetters)

IsAlpha(c) == IsLower(c) \/ IsUpper(c)

\* \w of the re module
IsWordChar(c) == IsAlpha(c) \/ IsDigit(c) \/ c = "_"

\* \s of the re module, and the characters str.strip / str.split remove
IsSpace(c) == c \in {" ", "\n", "\t"}

IndexOf(seq, c) == CHOOSE i \in 1..Len(seq) : seq[i] = c

lower_char(c) == IF IsUpper(c) THEN LowerLetters[IndexOf(UpperLetters, c)] ELSE c

upper_char(c) == IF IsLower(c) THEN UpperLetters[IndexOf(LowerLetters, c)] ELSE c

\* str.lower()
lower(s) == [i \in 1..Len(s) |-> lower_char(s[i])]

Min(S) == CHOOSE x \in S : \A y \in S : x <= y

Max(S) == CHOOSE x \in S : \A y \in S : x >= y

DigitAt(s, i) == i >= 1 /\ i <= Len(s) /\ IsDigit(s[i])

WordCharAt(s, i) == i >= 1 /\ i <= Len(s) /\ IsWordChar(s[i])

CharAt(s, i, c) == i >= 1 /\ i <= Len(s) /\ s[i] = c

\* the literal w occurs in s at index i
MatchAt(s, i, w) ==
  /\ i >= 1
  /\ i + Len(w) - 1 <= Len(s)
  /\ \A k \in 1..Len(w) : s[i + k - 1] = w[k]

\* Python: w in s
Contains(s, w) == \E i \in 1..(Len(s) - Len(w) + 1) : MatchAt(s, i, w)

\* Python: any(w in s for w in words)
AnyContains(s, words) == \E k \in 1..Len(words) : Contains(s, words[k])

\* some literal of words occurs in s at index i
AnyAt(s, i, words) == \E k \in 1..Len(words) : MatchAt(s, i, words[k])

\* Python: s in words
IsOneOf(s, words) == \E k \in 1..Len(words) : words[k] = s

\* last index of the run of digits that starts at i (i - 1 when s[i] is no digit)
RECURSIVE DigitEnd(_, _)
DigitEnd(s, i) == IF DigitAt(s, i) THEN DigitEnd(s, i + 1) ELSE i - 1

\* last index of the run of \w characters that starts at i (i - 1 when there is none)
RECURSIVE WordRunEnd(_, _)
WordRunEnd(s, i) == IF WordCharAt(s, i) THEN WordRunEnd(s, i + 1) ELSE i - 1

\* first index >= i that holds no white space (Len(s) + 1 at the end): greedy \s*
RECURSIVE SkipSpace(_, _)
SkipSpace(s, i) == IF i <= Len(s) /\ IsSpace(s[i]) THEN SkipSpace(s, i + 1) ELSE i

\* int() of a string of digits
RECURSIVE ToInt(_)
ToInt(ds) ==
  IF ds = <<>> THEN 0
  ELSE 10 * ToInt(SubSeq(ds, 1, Len(ds) - 1)) + (IndexOf(DigitSeq, ds[Len(ds)]) - 1)

\* str.isdigit()
isdigit(s) == s # <<>> /\ \A i \in 1..Len(s) : IsDigit(s[i])

\* str.isalpha()
isalpha(s) == s # <<>> /\ \A i \in 1..Len(s) : IsAlpha(s[i])

\* str.strip()
strip(s) ==
  LET I == {i \in 1..Len(s) : ~IsSpace(s[i])}
  IN IF I = {} THEN <<>> ELSE SubSeq(s, Min(I), Max(I))

\* str.split(): the maximal runs of characters that are not white space
RECURSIVE SplitFrom(_, _)
SplitFrom(s, i) ==
  LET a == SkipSpace(s, i)
  IN IF a > Len(s) THEN <<>>
     ELSE LET E == {e \in a..Len(s) : e = Len(s) \/ IsSpace(s[e + 1])}
              e == Min(E)
          IN <<SubSeq(s, a, e)>> \o SplitFrom(s, e + 1)

split(s) == SplitFrom(s, 1)

\* str.title() of one lower-case word
title(w) == [i \in 1..Len(w) |-> IF i = 1 THEN upper_char(w[i]) ELSE w[i]]

(***************************************************************************)
(* extract_customer_requirements: tables                                   *)
(***************************************************************************)
\* Python None of an int field
None == -1

\* Python None of a str field (no field ever holds the empty string)
NoText == <<>>

months ==
  << <<"j","a","n">>,
     <<"f","e","b">>,
     <<"m","a","r">>,
     <<"a","p","r">>,
     <<"m","a","y">>,
     <<"j","u","n">>,
     <<"j","u","l">>,
     <<"a","u","g">>,
     <<"s","e","p">>,
     <<"o","c","t">>,
     <<"n","o","v">>,
     <<"d","e","c">> >>

qty_units ==
  << <<"p","i","e","c","e","s">>,
     <<"p","c","s">>,
     <<"p","i","e","c","e">>,
     <<"f","a","m","i","l","y">>,
     <<"f","a","m","i","l","i","e","s">>,
     <<"p","e","o","p","l","e">> >>

qty_keywords ==
  << <<"q","u","a","n","t","i","t","y">>,
     <<"q","t","y">>,
     <<"n","e","e","d">>,
     <<"w","a","n","t">>,
     <<"f","o","r">> >>

budget_keywords ==
  << <<"b","u","d","g","e","t">>,
     <<"p","r","i","c","e">> >>

budget_bounds ==
  << <<"u","n","d","e","r">>,
     <<"b","e","l","o","w">>,
     <<"w","i","t","h","i","n">>,
     <<"u","p","t","o">> >>

known_cities ==
  << <<"c","h","e","n","n","a","i">>,
     <<"b","a","n","g","a","l","o","r","e">>,
     <<"b","e","n","g","a","l","u","r","u">>,
     <<"c","o","i","m","b","a","t","o","r","e">>,
     <<"m","a","d","u","r","a","i">>,
     <<"h","y","d","e","r","a","b","a","d">>,
     <<"k","o","c","h","i">>,
     <<"m","u","m","b","a","i">>,
     <<"d","e","l","h","i">>,
     <<"p","u","n","e">>,
     <<"m","y","s","o","r","e">>,
     <<"t","r","i","v","a","n","d","r","u","m">>,
     <<"v","i","j","a","y","a","w","a","d","a">>,
     <<"e","r","o","d","e">>,
     <<"s","a","l","e","m">>,
     <<"t","i","r","u","p","p","u","r">>,
     <<"g","u","n","t","u","r">>,
     <<"v","i","z","a","g">>,
     <<"t","i","r","u","n","e","l","v","e","l","i">>,
     <<"t","h","a","n","j","a","v","u","r">>,
     <<"t","r","i","c","h","y">>,
     <<"k","o","m","a","r","a","p","a","l","a","y","a","m">>,
     <<"k","a","r","u","r">>,
     <<"d","i","n","d","i","g","u","l">>,
     <<"v","e","l","l","o","r","e">>,
     <<"h","o","s","u","r">> >>

skip_words ==
  << <<"h","e","l","l","o">>,
     <<"h","i">>,
     <<"w","h","a","t">>,
     <<"w","h","e","n">>,
     <<"w","h","e","r","e">> >>

timeline_words ==
  << <<"a","s","a","p">>,
     <<"u","r","g","e","n","t">>,
     <<"i","m","m","e","d","i","a","t","e","l","y">>,
     <<"t","o","d","a","y">>,
     <<"t","o","m","o","r","r","o","w">>,
     <<"n","e","x","t"," ","w","e","e","k">>,
     <<"t","h","i","s"," ","w","e","e","k">>,
     <<"2"," ","w","e","e","k","s">>,
     <<"m","o","n","t","h">> >>

timeline_codes ==
  << <<"a","s","a","p">>,
     <<"a","s","a","p">>,
     <<"a","s","a","p">>,
     <<"t","o","d","a","y">>,
     <<"t","o","m","o","r","r","o","w">>,
     <<"n","e","x","t","_","w","e","e","k">>,
     <<"t","h","i","s","_","w","e","e","k">>,
     <<"t","w","o","_","w","e","e","k","s">>,
     <<"o","n","e","_","m","o","n","t","h">> >>


W_rupees == <<"r","u","p","e","e","s">>

W_rs == <<"r","s">>

W_per == <<"p","e","r">>

W_piece == <<"p","i","e","c","e">>

W_bengaluru == <<"b","e","n","g","a","l","u","r","u">>

W_Bangalore == <<"B","a","n","g","a","l","o","r","e">>

(***************************************************************************)
(* STEP 1: timeline.  A match is [found, start, end, nums]; nums are the   *)
(* numeric groups of the match, as strings.                                *)
(***************************************************************************)
NoMatch == [found |-> FALSE, start |-> 0, end |-> 0, nums |-> <<>>]

Match(a, b, groups) == [found |-> TRUE, start |-> a, end |-> b, nums |-> groups]

MonthAt(s, i) == AnyAt(s, i, months)

IsDateSep(s, i) == i >= 1 /\ i <= Len(s) /\ s[i] \in {"/", "-", "."}

\* end of a greedy \d{1,2} at i
TwoDigitEnd(s, i) == IF DigitAt(s, i + 1) THEN i + 1 ELSE i

\* (jan|...|dec)\w*\s*(\d{1,2}) at i, the month found and w the end of the
\* greedy \w*: \s* is greedy; when no digit follows it, \w* gives characters
\* back up to the last digit of the word
month_then_day(s, i, w) ==
  LET j == SkipSpace(s, w + 1)
      K == {k \in (i + 3)..w : IsDigit(s[k])}
  IN IF DigitAt(s, j)
     THEN Match(i, TwoDigitEnd(s, j), <<SubSeq(s, j, TwoDigitEnd(s, j))>>)
     ELSE IF K # {}
          THEN Match(i, Max(K), <<SubSeq(s, Max(K), Max(K))>>)
          ELSE NoMatch

date_pattern_1(s, i) ==
  IF ~MonthAt(s, i) THEN NoMatch ELSE month_then_day(s, i, WordRunEnd(s, i + 3))

\* (\d{1,2})\s*(jan|...|dec) at i
date_pattern_2(s, i) ==
  IF ~DigitAt(s, i) THEN NoMatch
  ELSE LET d == TwoDigitEnd(s, i)
           j == SkipSpace(s, d + 1)
       IN IF MonthAt(s, j) THEN Match(i, j + 2, <<SubSeq(s, i, d)>>) ELSE NoMatch

\* (\d{1,2})[/\-.](\d{1,2})[/\-.](\d{2,4}) at i
date_pattern_3(s, i) ==
  IF ~DigitAt(s, i) THEN NoMatch
  ELSE LET d1 == TwoDigitEnd(s, i)
           a  == d1 + 2
           d2 == TwoDigitEnd(s, a)
           b  == d2 + 2
           d3 == Min({DigitEnd(s, b), b + 3})
       IN IF /\ IsDateSep(s, d1 + 1)
             /\ DigitAt(s, a)
             /\ IsDateSep(s, d2 + 1)
             /\ DigitAt(s, b)
             /\ DigitAt(s, b + 1)
          THEN Match(i, d3, <<SubSeq(s, i, d1), SubSeq(s, a, d2), SubSeq(s, b, d3)>>)
          ELSE NoMatch

\* (\d{1,2})[/\-.](\d{1,2}) at i
date_pattern_4(s, i) ==
  IF ~DigitAt(s, i) THEN NoMatch
  ELSE LET d1 == TwoDigitEnd(s, i)
           a  == d1 + 2
           d2 == TwoDigitEnd(s, a)
       IN IF IsDateSep(s, d1 + 1) /\ DigitAt(s, a)
          THEN Match(i, d2, <<SubSeq(s, i, d1), SubSeq(s, a, d2)>>)
          ELSE NoMatch

\* re.finditer: the non-overlapping matches of a pattern, left to right;
\* tries[i] is the pattern tried at index i
RECURSIVE finditer(_, _)
finditer(tries, from) ==
  LET I == {i \in from..Len(tries) : tries[i].found}
  IN IF I = {} THEN <<>>
     ELSE <<tries[Min(I)]>> \o finditer(tries, tries[Min(I)].end + 1)

\* every match the two nested loops visit, in the order they visit them
date_matches(msg_lower) ==
  finditer([i \in 1..Len(msg_lower) |-> date_pattern_1(msg_lower, i)], 1)
    \o finditer([i \in 1..Len(msg_lower) |-> date_pattern_2(msg_lower, i)], 1)
    \o finditer([i \in 1..Len(msg_lower) |-> date_pattern_3(msg_lower, i)], 1)
    \o finditer([i \in 1..Len(msg_lower) |-> date_pattern_4(msg_lower, i)], 1)

\* for keyword, value in timeline_map.items(): first keyword in msg_lower
timeline_keyword(msg_lower) ==
  LET K == {k \in 1..Len(timeline_words) : Contains(msg_lower, timeline_words[k])}
  IN IF K = {} THEN NoText ELSE timeline_codes[Min(K)]

\* extracted["timeline"] after STEP 1: every date match overwrites it
last_match_or_keyword(msg_lower, ms) ==
  IF ms = <<>> THEN timeline_keyword(msg_lower)
  ELSE SubSeq(msg_lower, ms[Len(ms)].start, ms[Len(ms)].end)

extract_timeline(msg_lower) == last_match_or_keyword(msg_lower, date_matches(msg_lower))

\* the numeric groups of every match, as a set of strings
groups(ms) == UNION {Range(ms[k].nums) : k \in 1..Len(ms)}

\* date_numbers: the set of the numeric groups, as strings
date_numbers(msg_lower) == groups(date_matches(msg_lower))
(***************************************************************************)
(* all_numbers = re.findall(r'\b(\d+)\b', message): the maximal runs of    *)
(* digits with no \w character on either side, in textual order.  A number *)
(* is [text, value, start, end].                                           *)
(***************************************************************************)
RECURSIVE NumbersFrom(_, _)
NumbersFrom(s, i) ==
  IF i > Len(s) THEN <<>>
  ELSE IF ~IsDigit(s[i]) THEN NumbersFrom(s, i + 1)
  ELSE LET e == DigitEnd(s, i)
       IN IF ~WordCharAt(s, i - 1) /\ ~WordCharAt(s, e + 1)
          THEN <<[text |-> SubSeq(s, i, e), start |-> i, end |-> e]>>
                 \o NumbersFrom(s, e + 1)
          ELSE NumbersFrom(s, e + 1)

all_numbers(message) == NumbersFrom(message, 1)

(***************************************************************************)
(* STEP 2 and STEP 3: keyword patterns.  A hit is [found, value, start,    *)
(* end] with start..end the place of the captured number.                  *)
(***************************************************************************)
NoHit == [found |-> FALSE, value |-> None, start |-> 0, end |-> 0]

Hit(s, a, b) == [found |-> TRUE, value |-> ToInt(SubSeq(s, a, b)), start |-> a, end |-> b]

\* re.search: the leftmost index wins; tries[i] is the pattern tried at index i
search(tries) ==
  LET I == {i \in 1..Len(tries) : tries[i].found}
  IN IF I = {} THEN NoHit ELSE tries[Min(I)]

\* for pattern in patterns: the match of the first pattern that matches anywhere;
\* hits[k] is re.search of the k-th pattern
first_match(hits) ==
  LET K == {k \in 1..Len(hits) : hits[k].found}
  IN IF K = {} THEN NoHit ELSE hits[Min(K)]

\* (\d+)\s*(?:w1|w2|...) at i
NumberThenWord(s, i, words) ==
  IF ~DigitAt(s, i) THEN NoHit
  ELSE LET e == DigitEnd(s, i)
       IN IF AnyAt(s, SkipSpace(s, e + 1), words) THEN Hit(s, i, e) ELSE NoHit

\* (?:w1|w2|...)\s*:?\s*(\d+) at i
WordThenNumber(s, i, words) ==
  LET K == {k \in 1..Len(words) : MatchAt(s, i, words[k])}
  IN IF K = {} THEN NoHit
     ELSE LET j  == SkipSpace(s, i + Len(words[Min(K)]))
              j2 == IF CharAt(s, j, ":") THEN SkipSpace(s, j + 1) ELSE j
          IN IF DigitAt(s, j2) THEN Hit(s, j2, DigitEnd(s, j2)) ELSE NoHit

\* word\s+(\d+) at i
WordSpaceNumber(s, i, words) ==
  LET K == {k \in 1..Len(words) : MatchAt(s, i, words[k])}
  IN IF K = {} THEN NoHit
     ELSE LET a == i + Len(words[Min(K)])
              j == SkipSpace(s, a)
          IN IF j > a /\ DigitAt(s, j) THEN Hit(s, j, DigitEnd(s, j)) ELSE NoHit

\* (\d+)\s*(?:pieces|pcs|piece|family|families|people)
qty_pattern_1(s, i) == NumberThenWord(s, i, qty_units)

\* (?:quantity|qty|need|want|for)\s*:?\s*(\d+)
qty_pattern_2(s, i) == WordThenNumber(s, i, qty_keywords)

\* for pattern in qty_patterns: the first pattern that matches anywhere
\* only the "quantity/qty/need/want/for N" pattern, without the unit pattern "N pieces"
qty_match_without_units(msg_lower) ==
  first_match(<<search([i \in 1..Len(msg_lower) |-> qty_pattern_2(msg_lower, i)])>>)

qty_match(msg_lower) ==
  first_match(<<search([i \in 1..Len(msg_lower) |-> qty_pattern_1(msg_lower, i)]),
                search([i \in 1..Len(msg_lower) |-> qty_pattern_2(msg_lower, i)])>>)

\* (?:budget|price)\s*:?\s*(\d+)
budget_pattern_1(s, i) == WordThenNumber(s, i, budget_keywords)

\* (\d+)\s*(?:rupees|rs|RUPEE|per\s*piece)
budget_pattern_2(s, i) ==
  IF ~DigitAt(s, i) THEN NoHit
  ELSE LET e == DigitEnd(s, i)
           j == SkipSpace(s, e + 1)
       IN IF \/ MatchAt(s, j, W_rupees)
             \/ MatchAt(s, j, W_rs)
             \/ CharAt(s, j, "RUPEE")
             \/ (MatchAt(s, j, W_per) /\ MatchAt(s, SkipSpace(s, j + 3), W_piece))
          THEN Hit(s, i, e)
          ELSE NoHit

\* RUPEE\s*(\d+)
budget_pattern_3(s, i) ==
  LET j == SkipSpace(s, i + 1)
  IN IF CharAt(s, i, "RUPEE") /\ DigitAt(s, j) THEN Hit(s, j, DigitEnd(s, j)) ELSE NoHit

\* (\d+)\s*rs\b
budget_pattern_4(s, i) ==
  IF ~DigitAt(s, i) THEN NoHit
  ELSE LET e == DigitEnd(s, i)
           j == SkipSpace(s, e + 1)
       IN IF MatchAt(s, j, W_rs) /\ ~WordCharAt(s, j + 2) THEN Hit(s, i, e) ELSE NoHit

\* under\s+(\d+), below\s+(\d+), within\s+(\d+), upto\s+(\d+): patterns 5 to 8
budget_pattern_bound(k, s, i) == WordSpaceNumber(s, i, <<budget_bounds[k]>>)

budget_pattern_5(s, i) == budget_pattern_bound(1, s, i)

budget_pattern_6(s, i) == budget_pattern_bound(2, s, i)

budget_pattern_7(s, i) == budget_pattern_bound(3, s, i)

budget_pattern_8(s, i) == budget_pattern_bound(4, s, i)

\* for pattern in budget_patterns: the first pattern that matches anywhere
budget_match(msg_lower) ==
  first_match(<<search([i \in 1..Len(msg_lower) |-> budget_pattern_1(msg_lower, i)]),
                search([i \in 1..Len(msg_lower) |-> budget_pattern_2(msg_lower, i)]),
                search([i \in 1..Len(msg_lower) |-> budget_pattern_3(msg_lower, i)]),
                search([i \in 1..Len(msg_lower) |-> budget_pattern_4(msg_lower, i)]),
                search([i \in 1..Len(msg_lower) |-> budget_pattern_5(msg_lower, i)]),
                search([i \in 1..Len(msg_lower) |-> budget_pattern_6(msg_lower, i)]),
                search([i \in 1..Len(msg_lower) |-> budget_pattern_7(msg_lower, i)]),
                search([i \in 1..Len(msg_lower) |-> budget_pattern_8(msg_lower, i)])>>)
(***************************************************************************)
(* STEP 4: position-based extraction                                       *)
(***************************************************************************)
\* for num in all_numbers: if num not in date_numbers
not_in(numbers, dn) == SelectSeq(numbers, LAMBDA n : n.text \notin dn)

\* non_date_numbers.append(int(num))
ints(numbers) == [k \in 1..Len(numbers) |-> ToInt(numbers[k].text)]

\* non_date_numbers: the numbers whose text is not in date_numbers, as ints
non_date_numbers(message) ==
  ints(not_in(all_numbers(message), date_numbers(lower(message))))

\* quantity and budget after STEP 4, from their values after STEP 2 and STEP 3
position_based(qty, budget, nd) ==
  IF qty = None \/ budget = None
  THEN IF Len(nd) >= 2
       THEN [quantity |-> IF qty = None THEN nd[1] ELSE qty,
             budget_per_piece |-> IF budget = None THEN nd[2] ELSE budget]
       ELSE IF Len(nd) = 1
            THEN IF qty = None
                 THEN [quantity |-> nd[1], budget_per_piece |-> budget]
                 ELSE IF budget = None
                      THEN [quantity |-> qty, budget_per_piece |-> nd[1]]
                      ELSE [quantity |-> qty, budget_per_piece |-> budget]
            ELSE [quantity |-> qty, budget_per_piece |-> budget]
  ELSE [quantity |-> qty, budget_per_piece |-> budget]

(***************************************************************************)
(* STEP 5: location                                                        *)
(***************************************************************************)
\* for city in known_cities: the first city of the list found in msg_lower
city_location(msg_lower) ==
  LET K == {k \in 1..Len(known_cities) : Contains(msg_lower, known_cities[k])}
  IN IF K = {} THEN NoText
     ELSE IF known_cities[Min(K)] = W_bengaluru THEN W_Bangalore
     ELSE title(known_cities[Min(K)])

\* the word qualifies as a location in the fallback
is_location_word(word) ==
  /\ Len(word) > 3
  /\ IsUpper(word[1])
  /\ isalpha(word)
  /\ ~IsOneOf(lower(word), skip_words)

\* fallback location detection, for messages of at most three words
fallback_location(message) ==
  LET words == split(strip(message))
      K == {k \in 1..Len(words) : is_location_word(words[k])}
  IN IF Len(words) <= 3 /\ K # {} THEN words[Min(K)] ELSE NoText

\* the fallback runs only when no known city was found
city_or_fallback(city, message) ==
  IF city # NoText THEN city ELSE fallback_location(message)

extract_location(message) == city_or_fallback(city_location(lower(message)), message)

(***************************************************************************)
(* STEP 6: preferences                                                     *)
(***************************************************************************)
W_eco == <<"e","c","o">>

W_green == <<"g","r","e","e","n">>

W_traditional == <<"t","r","a","d","i","t","i","o","n","a","l">>

W_ethnic == <<"e","t","h","n","i","c">>

W_modern == <<"m","o","d","e","r","n">>

W_contemporary == <<"c","o","n","t","e","m","p","o","r","a","r","y">>

W_premium == <<"p","r","e","m","i","u","m">>

W_luxury == <<"l","u","x","u","r","y">>

extract_preferences(msg_lower) ==
  (IF Contains(msg_lower, W_eco) \/ Contains(msg_lower, W_green)
   THEN <<"eco_friendly">> ELSE <<>>)
  \o (IF Contains(msg_lower, W_traditional) \/ Contains(msg_lower, W_ethnic)
      THEN <<"traditional">> ELSE <<>>)
  \o (IF Contains(msg_lower, W_modern) \/ Contains(msg_lower, W_contemporary)
      THEN <<"modern">> ELSE <<>>)
  \o (IF Contains(msg_lower, W_premium) \/ Contains(msg_lower, W_luxury)
      THEN <<"premium">> ELSE <<>>)

(***************************************************************************)
(* STEP 7: confirmation logic, and the whole tool                          *)
(***************************************************************************)
\* extracted["needs_confirmation"]
confirmation_logic(qty, budget, qty_used_keyword, budget_used_keyword) ==
  qty # None /\ budget # None /\ ~qty_used_keyword /\ ~budget_used_keyword

qty_used_keyword(message) == qty_match(lower(message)).found

budget_used_keyword(message) == budget_match(lower(message)).found

\* the dict the tool returns: q and b are the keyword matches of STEP 2 and
\* STEP 3, qb the quantity and budget after STEP 4
extracted_dict(message, msg_lower, q, b, qb) ==
  [quantity           |-> qb.quantity,
   budget_per_piece   |-> qb.budget_per_piece,
   timeline           |-> extract_timeline(msg_lower),
   location           |-> extract_location(message),
   preferences        |-> extract_preferences(msg_lower),
   needs_confirmation |-> confirmation_logic(qb.quantity, qb.budget_per_piece,
                                             q.found, b.found)]

\* STEP 4 to STEP 7, after the keyword matches q and b
after_keywords(message, msg_lower, q, b) ==
  extracted_dict(message, msg_lower, q, b,
                 position_based(q.value, b.value, non_date_numbers(message)))

extract_customer_requirements(message) ==
  after_keywords(message, lower(message),
                 qty_match(lower(message)), budget_match(lower(message)))
(***************************************************************************)
(* Tables of the dialogue nodes                                            *)
(***************************************************************************)
IMAGE_SENT == <<"[","I","M","A","G","E","_","S","E","N","T","]">>

SEND_PRODUCT_IMAGES_WITH_SUMMARY == "[SEND_PRODUCT_IMAGES_WITH_SUMMARY]"

quick_price_queries ==
  << <<"p","p">>,
     <<"p","r","i","c","e"," ","p","l","e","a","s","e">>,
     <<"p","r","i","c","e"," ","p","l","s">>,
     <<"r","a","t","e"," ","p","l","s">>,
     <<"r","a","t","e"," ","p","l","e","a","s","e">>,
     <<"a","v","a","i","l","a","b","l","e","?">>,
     <<"s","t","o","c","k","?">>,
     <<"a","v","a","i","l","a","b","l","e">>,
     <<"i","n"," ","s","t","o","c","k">> >>

affirmatives ==
  << <<"y","e","s">>,
     <<"y">>,
     <<"o","k">>,
     <<"c","o","r","r","e","c","t">>,
     <<"c","o","n","f","i","r","m">>,
     <<"r","i","g","h","t">>,
     <<"h","a","i">> >>

greeting_keywords ==
  << <<"h","e","l","l","o">>,
     <<"h","i">>,
     <<"h","e","y">>,
     <<"s","t","a","r","t">>,
     <<"n","e","w">>,
     <<"h","a","i">> >>

unhandleable_patterns ==
  << <<"r","e","f","u","n","d">>,
     <<"c","a","n","c","e","l">>,
     <<"c","o","m","p","l","a","i","n","t">>,
     <<"i","s","s","u","e">>,
     <<"p","r","o","b","l","e","m">>,
     <<"s","h","i","p","p","i","n","g"," ","c","o","s","t">>,
     <<"d","e","l","i","v","e","r","y"," ","c","h","a","r","g","e">>,
     <<"p","a","y","m","e","n","t"," ","m","e","t","h","o","d">>,
     <<"c","u","s","t","o","m","i","z","a","t","i","o","n">>,
     <<"c","u","s","t","o","m","i","z","e">>,
     <<"d","e","s","i","g","n"," ","c","h","a","n","g","e">>,
     <<"b","u","l","k"," ","d","i","s","c","o","u","n","t">>,
     <<"w","h","o","l","e","s","a","l","e">> >>

classifier_timeline_words ==
  << <<"t","o","m","o","r","r","o","w">>,
     <<"t","o","d","a","y">>,
     <<"n","e","x","t"," ","w","e","e","k">>,
     <<"a","s","a","p">> >>

has_qty_words ==
  << <<"q","u","a","n","t","i","t","y">>,
     <<"q","t","y">>,
     <<"p","i","e","c","e","s">>,
     <<"p","c","s">> >>

has_budget_words ==
  << <<"b","u","d","g","e","t">>,
     <<"p","r","i","c","e">>,
     <<"r","s">>,
     <<"r","u","p","e","e","s">>,
     <<"RUPEE">> >>

llm_handoff_intents ==
  << <<"t","r","a","c","k","_","o","r","d","e","r">>,
     <<"a","s","k","_","q","u","e","s","t","i","o","n">>,
     <<"c","o","m","p","l","a","i","n","t">> >>

llm_browse_intents ==
  << <<"b","r","o","w","s","e">>,
     <<"p","r","o","d","u","c","t">>,
     <<"g","r","e","e","t","i","n","g">> >>

(***************************************************************************)
(* What the nodes compute from the last human message                      *)
(***************************************************************************)
\* "[IMAGE_SENT]" in last_msg
is_image(last_msg) == Contains(last_msg, IMAGE_SENT)

\* len(last_msg) <= 20 and any(query in msg_lower for query in quick_price_queries)
is_quick_query(last_msg) ==
  Len(last_msg) <= 20 /\ AnyContains(strip(lower(last_msg)), quick_price_queries)

\* msg_lower in ["yes", "y", "ok", "correct", "confirm", "right", "hai"]
is_affirmative(last_msg) == IsOneOf(strip(lower(last_msg)), affirmatives)

\* any(keyword == msg_lower for keyword in greeting_keywords)
is_greeting(last_msg) == IsOneOf(strip(lower(last_msg)), greeting_keywords)

\* \d{1,2}[/\-]\d{1,2} somewhere in s
has_numeric_date(s) ==
  \E i \in 1..Len(s) :
    /\ DigitAt(s, i)
    /\ \/ (i + 1 <= Len(s) /\ s[i + 1] \in {"/", "-"} /\ DigitAt(s, i + 2))
       \/ (DigitAt(s, i + 1) /\ i + 2 <= Len(s) /\ s[i + 2] \in {"/", "-"}
             /\ DigitAt(s, i + 3))

\* PRIORITY 5: a number, a single word of more than two characters, or a date
is_simple_input(last_msg) ==
  LET msg_lower == strip(lower(last_msg))
  IN \/ isdigit(msg_lower)
     \/ (Len(split(msg_lower)) = 1 /\ Len(msg_lower) > 2)
     \/ AnyContains(msg_lower, months)
     \/ has_numeric_date(msg_lower)
     \/ AnyContains(msg_lower, classifier_timeline_words)

\* PRIORITY 6: any(pattern in msg_lower for pattern in unhandleable_patterns)
is_unhandleable(last_msg) == AnyContains(strip(lower(last_msg)), unhandleable_patterns)

\* last_msg.strip().isdigit()
is_single_number(last_msg) == isdigit(strip(last_msg))

has_qty_keyword(last_msg) == AnyContains(lower(last_msg), has_qty_words)

has_budget_keyword(last_msg) == AnyContains(lower(last_msg), has_budget_words)
(***************************************************************************)
(* BotState.  A state is a record of the channels of the graph; an         *)
(* optional value carries is_none.  The content of a HumanMessage is not   *)
(* kept in the history: every node reads only the last one, which is the   *)
(* message of the running turn.  The h_ fields are history variables: they *)
(* record where the stored quantity and budget came from, and the values   *)
(* the customer confirmed.                                                 *)
(***************************************************************************)
NoRequirements ==
  [is_none |-> TRUE, quantity |-> None, budget_per_piece |-> None, timeline |-> NoText,
   location |-> NoText, preferences |-> <<>>, needs_confirmation |-> FALSE]

\* ExtractedRequirements(**extracted)
Requirements(extracted) ==
  [is_none |-> FALSE, quantity |-> extracted.quantity,
   budget_per_piece |-> extracted.budget_per_piece, timeline |-> extracted.timeline,
   location |-> extracted.location, preferences |-> extracted.preferences,
   needs_confirmation |-> extracted.needs_confirmation]

NoProducts == [is_none |-> TRUE, items |-> <<>>]

NoSummary == [is_none |-> TRUE, quantity |-> None, budget_per_piece |-> None,
              location |-> NoText, timeline |-> NoText, options |-> 0]

NoConfirmed == [is_none |-> TRUE, quantity |-> None, budget_per_piece |-> None]

\* the content of an AIMessage: which text it is, and the values shown in it
Content(kind, quantity, budget, missing) ==
  [kind |-> kind, quantity |-> quantity, budget |-> budget, missing |-> missing]

NoContent == Content("None", None, None, <<>>)

HumanMessage == [role |-> "human", content |-> NoContent]

AIMessage(content) == [role |-> "ai", content |-> content]

\* the state of a thread that has no checkpoint
EmptyState ==
  [messages |-> <<>>,
   requirements |-> NoRequirements,
   validation |-> "None",
   recommended_products |-> NoProducts,
   selected_product |-> "None",
   current_stage |-> "None",
   conversation_history_summary |-> NoSummary,
   handoff_reason |-> "None",
   has_greeted |-> FALSE,
   needs_human_handoff |-> FALSE,
   h_qty_source |-> "none",
   h_budget_source |-> "none",
   h_confirmed |-> NoConfirmed]

(***************************************************************************)
(* The customer messages of the model                                      *)
(***************************************************************************)
\* 'hi': a greeting keyword
M_hi == <<"h","i">>

\* '[IMAGE_SENT]': the image marker
M_image == <<"[","I","M","A","G","E","_","S","E","N","T","]">>

\* 'pp': a quick price query
M_pp == <<"p","p">>

\* '500\n45\nFeb 22\nChennai': Test Conversation 1
M_example_1 == <<"5","0","0","\n","4","5","\n","F","e","b"," ","2","2","\n","C","h","e","n","n","a","i">>

\* '50\n100\nFeb 22\nChennai': Test Conversation 2
M_ambiguous == <<"5","0","\n","1","0","0","\n","F","e","b"," ","2","2","\n","C","h","e","n","n","a","i">>

\* 'yes': an affirmative reply
M_yes == <<"y","e","s">>

\* 'Correct': an affirmative reply, capitalised
M_Correct == <<"C","o","r","r","e","c","t">>

\* '50 pieces, budget rs 100, asap, Mumbai': keywords for both numbers
M_example_2 == <<"5","0"," ","p","i","e","c","e","s",","," ","b","u","d","g","e","t"," ","r","s"," ","1","0","0",","," ","a","s","a","p",","," ","M","u","m","b","a","i">>

\* '50 pcs': a quantity with its unit word
M_50_pcs == <<"5","0"," ","p","c","s">>

\* '20 30': two bare numbers
M_20_30 == <<"2","0"," ","3","0">>

\* 'pieces: 60, 100': a quantity keyword that anchors no number
M_pieces_60_100 == <<"p","i","e","c","e","s",":"," ","6","0",","," ","1","0","0">>

\* '7 8 hours': two bare numbers and a word that holds rs
M_hours_7_8 == <<"7"," ","8"," ","h","o","u","r","s">>

\* '45': one bare number
M_45 == <<"4","5">>

\* 'Chennai': a city
M_Chennai == <<"C","h","e","n","n","a","i">>

\* 'tomorrow': a timeline keyword
M_tomorrow == <<"t","o","m","o","r","r","o","w">>

\* 'i want a refund': an out-of-scope query
M_refund == <<"i"," ","w","a","n","t"," ","a"," ","r","e","f","u","n","d">>

\* 'refund': an out-of-scope keyword alone
M_word_refund == <<"r","e","f","u","n","d">>

\* 'shipping cost': an out-of-scope keyword that holds the letters pp
M_shipping_cost == <<"s","h","i","p","p","i","n","g"," ","c","o","s","t">>

\* 'do you have gifts': a message for the language model
M_gifts == <<"d","o"," ","y","o","u"," ","h","a","v","e"," ","g","i","f","t","s">>

\* '0': a number that is not positive
M_0 == <<"0">>

ConvMessages ==
  {M_hi, M_image, M_pp, M_example_1,
   M_ambiguous, M_yes, M_Correct, M_example_2,
   M_50_pcs, M_20_30, M_pieces_60_100, M_hours_7_8,
   M_45, M_Chennai, M_tomorrow, M_refund,
   M_word_refund, M_shipping_cost, M_gifts, M_0}

\* the answers of the language model, lower-cased (response.content.lower())
L_browse == <<"b","r","o","w","s","e","_","p","r","o","d","u","c","t","s">>

L_complaint == <<"c","o","m","p","l","a","i","n","t">>

L_unknown == <<"s","o","r","r","y">>

LlmOutputs == {L_browse, L_complaint, L_unknown}

\* what search_matching_products can return: no product, or a ranked list
CatalogResults == {<<>>, <<"product_1", "product_2">>}

\* What the nodes test on a message, evaluated once per message of the model
facts_table ==
  [m \in ConvMessages |->
     [is_image           |-> is_image(m),
      is_quick_query     |-> is_quick_query(m),
      is_affirmative     |-> is_affirmative(m),
      is_greeting        |-> is_greeting(m),
      is_simple_input    |-> is_simple_input(m),
      is_unhandleable    |-> is_unhandleable(m),
      is_single_number   |-> is_single_number(m),
      has_qty_keyword    |-> has_qty_keyword(m),
      has_budget_keyword |-> has_budget_keyword(m)]]

\* m is a message of the model
facts(m) == facts_table[m]

\* The extraction of each message of the model, evaluated once
extraction_table ==
  [m \in ConvMessages |->
     [extracted |-> extract_customer_requirements(m),
      qk        |-> qty_used_keyword(m),
      bk        |-> budget_used_keyword(m)]]

\* extract_customer_requirements(m) with the two keyword flags it computes,
\* m a message of the model
extraction(m) == extraction_table[m]

(***************************************************************************)
(* NODES                                                                   *)
(***************************************************************************)
greeting_node(state) ==
  [state EXCEPT !.messages = Append(@, AIMessage(Content("greeting", None, None, <<>>))),
                !.current_stage = "intent_classification",
                !.has_greeted = TRUE]

\* a return {"current_stage": "handoff", "needs_human_handoff": True, "handoff_reason": r}
handoff(state, reason) ==
  [state EXCEPT !.current_stage = "handoff",
                !.needs_human_handoff = TRUE,
                !.handoff_reason = reason]

\* confirmation_response with the bug of ignoring a reply that is not affirmative:
\* the stage stays awaiting_confirmation
confirmation_response_keeps_waiting(state, last_msg) ==
  IF facts(last_msg).is_affirmative
  THEN [state EXCEPT !.current_stage = "validation",
                     !.requirements = IF @.is_none THEN @
                                      ELSE [@ EXCEPT !.needs_confirmation = FALSE]]
  ELSE state

\* PRIORITY 3: the reply to a confirmation prompt
confirmation_response(state, last_msg) ==
  IF facts(last_msg).is_affirmative
  THEN [state EXCEPT !.current_stage = "validation",
                     !.requirements = IF @.is_none THEN @
                                      ELSE [@ EXCEPT !.needs_confirmation = FALSE],
                     !.h_confirmed = IF state.requirements.is_none THEN @
                                     ELSE [is_none |-> FALSE,
                                           quantity |-> state.requirements.quantity,
                                           budget_per_piece |->
                                             state.requirements.budget_per_piece]]
  ELSE [state EXCEPT !.current_stage = "requirement_extraction"]

\* PRIORITY 4: a greeting keyword
fresh_greeting(state) ==
  IF state.current_stage = "handoff"
  THEN [state EXCEPT !.current_stage = "requirement_extraction",
                     !.requirements = NoRequirements,
                     !.recommended_products = NoProducts,
                     !.selected_product = "None",
                     !.validation = "None",
                     !.has_greeted = TRUE,
                     !.needs_human_handoff = FALSE,
                     !.handoff_reason = "None",
                     !.h_qty_source = "none",
                     !.h_budget_source = "none",
                     !.h_confirmed = NoConfirmed]
  ELSE IF state.current_stage \in {"product_selection", "order_confirmation"}
  THEN [state EXCEPT !.current_stage = "requirement_extraction",
                     !.requirements = NoRequirements,
                     !.recommended_products = NoProducts,
                     !.selected_product = "None",
                     !.validation = "None",
                     !.has_greeted = TRUE,
                     !.h_qty_source = "none",
                     !.h_budget_source = "none",
                     !.h_confirmed = NoConfirmed]
  ELSE [state EXCEPT !.current_stage = "requirement_extraction"]

\* llm_classification with the bug of testing the browse words first: an answer
\* that names a browse word continues whatever else it names
llm_classification_browse_first(state, intent_text) ==
  IF AnyContains(intent_text, llm_browse_intents)
  THEN [state EXCEPT !.current_stage = "requirement_extraction"]
  ELSE handoff(state, "llm_classification")

\* PRIORITY 7: intent_text is the lower-cased answer of the language model
llm_classification(state, intent_text) ==
  IF AnyContains(intent_text, llm_handoff_intents)
  THEN handoff(state, "llm_classification")
  ELSE IF AnyContains(intent_text, llm_browse_intents)
       THEN [state EXCEPT !.current_stage = "requirement_extraction"]
       ELSE handoff(state, "llm_classification")

intent_classifier_node(state, last_msg, intent_text) ==
  IF state.needs_human_handoff THEN state
  ELSE IF ~\E i \in 1..Len(state.messages) : state.messages[i].role = "human" THEN state
  ELSE IF facts(last_msg).is_image THEN handoff(state, "image_sent")
  ELSE IF facts(last_msg).is_quick_query THEN handoff(state, "quick_price_query")
  ELSE IF state.current_stage = "awaiting_confirmation"
       THEN confirmation_response(state, last_msg)
  ELSE IF facts(last_msg).is_greeting THEN fresh_greeting(state)
  ELSE IF facts(last_msg).is_simple_input
       THEN [state EXCEPT !.current_stage = "requirement_extraction"]
  ELSE IF facts(last_msg).is_unhandleable THEN handoff(state, "unhandleable_query")
  ELSE llm_classification(state, intent_text)
\* how an extraction obtained a value: history only
source_of(value, used_keyword) ==
  IF value = None THEN "none" ELSE IF used_keyword THEN "keyword" ELSE "position"

\* SMART MERGE of quantity or budget_per_piece: an existing value is overwritten
\* only when the message holds one of the field's keywords
merge_number(current_value, value, has_keyword) ==
  IF value = None THEN current_value
  ELSE IF current_value = None THEN value
  ELSE IF has_keyword THEN value
  ELSE current_value

\* the history variable that goes with merge_number
merge_source(current_value, value, has_keyword, current_source, used_keyword) ==
  IF value = None THEN current_source
  ELSE IF current_value = None \/ has_keyword THEN source_of(value, used_keyword)
  ELSE current_source

\* SMART MERGE of timeline, location and preferences: any extracted value is stored
merge_other(current_value, value) == IF value = <<>> THEN current_value ELSE value

\* a merge that replaces the record by the extraction
smart_merge_replaces(current_req, extracted, has_qty, has_budget) ==
  Requirements(extracted)

\* SMART MERGE of a whole extraction into current_req
smart_merge(current_req, extracted, has_qty, has_budget) ==
  [is_none            |-> FALSE,
   quantity           |-> merge_number(current_req.quantity, extracted.quantity,
                                       has_qty),
   budget_per_piece   |-> merge_number(current_req.budget_per_piece,
                                       extracted.budget_per_piece,
                                       has_budget),
   timeline           |-> merge_other(current_req.timeline, extracted.timeline),
   location           |-> merge_other(current_req.location, extracted.location),
   preferences        |-> merge_other(current_req.preferences, extracted.preferences),
   needs_confirmation |-> extracted.needs_confirmation]

\* the merge of an extraction e = extraction(last_msg) into the state;
\* f = facts(last_msg)
merge_extraction(state, e, f) ==
  LET extracted   == e.extracted
      current_req == state.requirements
  IN IF ~current_req.is_none
     THEN [state EXCEPT
             !.requirements = smart_merge(current_req, extracted,
                                          f.has_qty_keyword, f.has_budget_keyword),
             !.current_stage = "validation",
             !.h_qty_source =
                merge_source(current_req.quantity, extracted.quantity,
                             f.has_qty_keyword, @, e.qk),
             !.h_budget_source =
                merge_source(current_req.budget_per_piece, extracted.budget_per_piece,
                             f.has_budget_keyword, @, e.bk)]
     ELSE [state EXCEPT
             !.requirements = Requirements(extracted),
             !.current_stage = "validation",
             !.h_qty_source = source_of(extracted.quantity, e.qk),
             !.h_budget_source = source_of(extracted.budget_per_piece, e.bk)]

\* normal extraction for complex inputs, then the merge
normal_extraction(state, last_msg) ==
  merge_extraction(state, extraction(last_msg), facts(last_msg))

\* requirement_extraction_node with the bug of lacking the special handling for
\* single numbers: every message goes through the normal extraction
requirement_extraction_node_without_sequential_fill(state, last_msg) ==
  normal_extraction(state, last_msg)

\* special handling for single numbers: sequential filling
requirement_extraction_node(state, last_msg) ==
  LET current_req == state.requirements
      number      == ToInt(strip(last_msg))
  IN IF facts(last_msg).is_single_number /\ ~current_req.is_none /\ current_req.quantity = None
     THEN [state EXCEPT !.requirements = [current_req EXCEPT !.quantity = number],
                        !.current_stage = "validation",
                        !.h_qty_source = "sequential"]
     ELSE IF /\ facts(last_msg).is_single_number
             /\ ~current_req.is_none
             /\ current_req.budget_per_piece = None
     THEN [state EXCEPT !.requirements = [current_req EXCEPT !.budget_per_piece = number],
                        !.current_stage = "validation",
                        !.h_budget_source = "sequential"]
     ELSE normal_extraction(state, last_msg)

\* validation_router with the bug of not checking the location
validation_router_without_location(state) ==
  LET req == state.requirements
  IN IF req.is_none THEN "ask_confirmation"
     ELSE IF ~(/\ req.quantity # None
               /\ req.budget_per_piece # None
               /\ req.timeline # NoText)
     THEN "ask_confirmation"
     ELSE IF req.needs_confirmation THEN "ask_confirmation"
     ELSE "validate"

validation_router(state) ==
  LET req == state.requirements
  IN IF req.is_none THEN "ask_confirmation"
     ELSE IF ~(/\ req.quantity # None
               /\ req.budget_per_piece # None
               /\ req.timeline # NoText
               /\ req.location # NoText)
     THEN "ask_confirmation"
     ELSE IF req.needs_confirmation THEN "ask_confirmation"
     ELSE "validate"

\* Python truth of an Optional[int]: neither None nor 0
Truthy(n) == n # None /\ n # 0

\* the fields ask_confirmation_node asks for, in its order
missing_fields(req) ==
  (IF ~Truthy(req.quantity) THEN <<"Quantity">> ELSE <<>>)
  \o (IF ~Truthy(req.budget_per_piece) THEN <<"Budget per piece">> ELSE <<>>)
  \o (IF req.timeline = NoText THEN <<"When needed">> ELSE <<>>)
  \o (IF req.location = NoText THEN <<"Delivery location">> ELSE <<>>)

ask_confirmation_node(state) ==
  LET req == state.requirements
  IN IF req.is_none THEN [state EXCEPT !.current_stage = "requirement_extraction"]
     ELSE IF req.needs_confirmation /\ Truthy(req.quantity) /\ Truthy(req.budget_per_piece)
     THEN [state EXCEPT
             !.messages = Append(@, AIMessage(Content("confirm", req.quantity,
                                                      req.budget_per_piece, <<>>))),
             !.current_stage = "awaiting_confirmation"]
     ELSE [state EXCEPT
             !.messages = Append(@, AIMessage(Content("missing", None, None,
                                                      missing_fields(req)))),
             !.current_stage = "requirement_extraction"]

(***************************************************************************)
(* calculate_timeline_urgency. Dates are days counted from a fixed day;    *)
(* parsed is the day dateutil's parser returns for the text, or ParseFails  *)
(* when it raises.                                                         *)
(***************************************************************************)
timeline_config ==
  << [code |-> <<"a","s","a","p">>, days |-> 1, urgency |-> "critical"],
     [code |-> <<"t","o","d","a","y">>, days |-> 0, urgency |-> "critical"],
     [code |-> <<"t","o","m","o","r","r","o","w">>, days |-> 1, urgency |-> "high"],
     [code |-> <<"t","h","i","s","_","w","e","e","k">>, days |-> 5, urgency |-> "medium"],
     [code |-> <<"n","e","x","t","_","w","e","e","k">>, days |-> 7, urgency |-> "medium"],
     [code |-> <<"t","w","o","_","w","e","e","k","s">>, days |-> 14, urgency |-> "low"],
     [code |-> <<"o","n","e","_","m","o","n","t","h">>, days |-> 30, urgency |-> "low"] >>

ParseFails == None

\* parsed_date.replace(year=today.year + 1)
YearDays == 365

\* the dict calculate_timeline_urgency returns
urgency_result(delivery_date, days_remaining, urgency) ==
  [delivery_date |-> delivery_date, days_remaining |-> days_remaining,
   urgency_level |-> urgency, is_rush_order |-> urgency \in {"critical", "high"}]

\* urgency from the days that remain
urgency_of(days_remaining) ==
  IF days_remaining <= 2 THEN "critical"
  ELSE IF days_remaining <= 7 THEN "high"
  ELSE IF days_remaining <= 14 THEN "medium"
  ELSE "low"

\* the day of the model that is 29 February of a leap year
LeapDay == 9

\* parsed_date.replace(year=today.year + 1) raises ValueError for 29 February:
\* the year after a leap year has no such day; the bare except catches it
replace_year_raises(parsed) == parsed = LeapDay

\* the else branch: a date parsed from the text, or the fallback
parsed_timeline(today, parsed) ==
  IF parsed = ParseFails THEN urgency_result(today + 7, 7, "medium")
  ELSE IF parsed < today
       THEN IF replace_year_raises(parsed)
            THEN urgency_result(today + 7, 7, "medium")
            ELSE urgency_result(parsed + YearDays, parsed + YearDays - today,
                                urgency_of(parsed + YearDays - today))
       ELSE urgency_result(parsed, parsed - today, urgency_of(parsed - today))

\* the timeline_config entries of a code
config_of(code) == {k \in 1..Len(timeline_config) : timeline_config[k].code = code}

\* calculate_timeline_urgency with the bug of lacking the predefined codes
calculate_timeline_urgency_without_codes(timeline, today, parsed) ==
  parsed_timeline(today, parsed)

calculate_timeline_urgency(timeline, today, parsed) ==
  IF config_of(lower(timeline)) # {}
  THEN urgency_result(today + timeline_config[Min(config_of(lower(timeline)))].days,
                      timeline_config[Min(config_of(lower(timeline)))].days,
                      timeline_config[Min(config_of(lower(timeline)))].urgency)
  ELSE parsed_timeline(today, parsed)

validation_node(state) ==
  [state EXCEPT !.validation = "is_valid", !.current_stage = "product_search"]

\* products is what search_matching_products returns for the stored requirements
product_search_node(state, products) ==
  [state EXCEPT !.recommended_products = [is_none |-> FALSE, items |-> products],
                !.current_stage = "recommendation"]

recommendation_node(state) ==
  LET products == state.recommended_products.items
      req      == state.requirements
  IN IF products = <<>>
     THEN [handoff(state, "no_products") EXCEPT
             !.messages = Append(@, AIMessage(Content("no_products", None,
                                                      req.budget_per_piece, <<>>)))]
     ELSE [handoff(state, "products_shown") EXCEPT
             !.messages = Append(@, AIMessage(Content(SEND_PRODUCT_IMAGES_WITH_SUMMARY,
                                                      None, None, <<>>))),
             !.conversation_history_summary =
                [is_none |-> FALSE, quantity |-> req.quantity,
                 budget_per_piece |-> req.budget_per_piece, location |-> req.location,
                 timeline |-> req.timeline, options |-> Len(products)]]
(***************************************************************************)
(* The graph of build_production_graph: one invocation runs the nodes of   *)
(* one path from the entry point to END.                                   *)
(***************************************************************************)
\* entry_router with the bug of lacking PRIORITY 1 and PRIORITY 2: a new customer
\* is greeted whatever the message is
entry_router_greets_first(state, last_msg) ==
  IF ~state.has_greeted THEN "greeting" ELSE "classify_intent"

entry_router(state, last_msg) ==
  IF facts(last_msg).is_image THEN "classify_intent"
  ELSE IF facts(last_msg).is_quick_query THEN "classify_intent"
  ELSE IF ~state.has_greeted THEN "greeting"
  ELSE "classify_intent"

post_intent_router(state) ==
  IF state.current_stage = "handoff" \/ state.needs_human_handoff
  THEN "end"
  ELSE "extract_requirements"

Run(state, path, after_intent) ==
  [state |-> state, path |-> path, after_intent |-> after_intent]

\* after_extraction with the bug of lacking the edge search_products -> recommend:
\* the turn ends after the product search
after_extraction_without_recommend(s2, path, after_intent, products) ==
  IF validation_router(s2) = "ask_confirmation"
  THEN Run(ask_confirmation_node(s2), path \o <<"ask_confirmation">>, after_intent)
  ELSE Run(product_search_node(validation_node(s2), products),
           path \o <<"validate", "search_products">>, after_intent)

\* the edges after extract_requirements
after_extraction(s2, path, after_intent, products) ==
  IF validation_router(s2) = "ask_confirmation"
  THEN Run(ask_confirmation_node(s2), path \o <<"ask_confirmation">>, after_intent)
  ELSE Run(recommendation_node(product_search_node(validation_node(s2), products)),
           path \o <<"validate", "search_products", "recommend">>, after_intent)

\* the edges after classify_intent: s1 is the state the classifier returns
after_classify_intent(s1, last_msg, products) ==
  IF post_intent_router(s1) = "end"
  THEN Run(s1, <<"classify_intent">>, s1.current_stage)
  ELSE after_extraction(requirement_extraction_node(s1, last_msg),
                        <<"classify_intent", "extract_requirements">>,
                        s1.current_stage, products)

\* graph.invoke: state is the checkpoint with the HumanMessage appended
invoke(state, last_msg, intent_text, products) ==
  IF entry_router(state, last_msg) = "greeting"
  THEN Run(greeting_node(state), <<"greeting">>, "None")
  ELSE after_classify_intent(intent_classifier_node(state, last_msg, intent_text),
                             last_msg, products)

(***************************************************************************)
(* ProductionVihaBot.chat                                                  *)
(***************************************************************************)
Result(reply, needs_handoff, products, summary, reason) ==
  [reply |-> reply, needs_handoff |-> needs_handoff, products |-> products,
   requirements_summary |-> summary, handoff_reason |-> reason]

NoResult == Result(NoContent, FALSE, NoProducts, NoSummary, "None")

\* the text for the owner: one fixed text per reason type
build_handoff_reason(reason_type) == [text_for |-> reason_type]

\* the content of the latest AIMessage, None when there is none
latest_bot_response(msgs) ==
  LET A == {i \in 1..Len(msgs) : msgs[i].role = "ai"}
  IN IF A = {} THEN NoContent ELSE msgs[Max(A)].content

\* chat_result with the bug of lacking scenario C: in handoff, a message the
\* graph has just produced is returned as the reply
chat_result_without_scenario_C(messages_before, result) ==
  LET bot_generated_new_message == Len(result.messages) - messages_before > 1
      needs_handoff == result.needs_human_handoff
      latest == latest_bot_response(result.messages)
  IN IF /\ bot_generated_new_message
        /\ latest.kind = SEND_PRODUCT_IMAGES_WITH_SUMMARY
        /\ needs_handoff
     THEN Result(latest, TRUE, result.recommended_products,
                 result.conversation_history_summary,
                 build_handoff_reason(result.handoff_reason))
     ELSE IF needs_handoff /\ result.current_stage = "handoff"
                           /\ ~bot_generated_new_message
     THEN Result(NoContent, TRUE, NoProducts, NoSummary,
                 build_handoff_reason(result.handoff_reason))
     ELSE IF bot_generated_new_message /\ latest # NoContent
     THEN Result(latest, FALSE, NoProducts, NoSummary, "None")
     ELSE Result(NoContent, TRUE, NoProducts, NoSummary, "None")

\* chat_result with the bug of a scenario C that does not signal the handoff
chat_result_without_handoff_signal(messages_before, result) ==
  LET bot_generated_new_message == Len(result.messages) - messages_before > 1
      needs_handoff == result.needs_human_handoff
      latest == latest_bot_response(result.messages)
  IN IF /\ bot_generated_new_message
        /\ latest.kind = SEND_PRODUCT_IMAGES_WITH_SUMMARY
        /\ needs_handoff
     THEN Result(latest, TRUE, result.recommended_products,
                 result.conversation_history_summary,
                 build_handoff_reason(result.handoff_reason))
     ELSE IF needs_handoff /\ result.current_stage = "handoff"
                           /\ ~bot_generated_new_message
     THEN Result(NoContent, TRUE, NoProducts, NoSummary,
                 build_handoff_reason(result.handoff_reason))
     ELSE IF needs_handoff
     THEN Result(NoContent, FALSE, NoProducts, NoSummary,
                 build_handoff_reason(result.handoff_reason))
     ELSE IF bot_generated_new_message /\ latest # NoContent
     THEN Result(latest, FALSE, NoProducts, NoSummary, "None")
     ELSE Result(NoContent, TRUE, NoProducts, NoSummary, "None")

\* what chat returns: messages_before counts the messages of the checkpoint
\* read before the invocation, result is the state the invocation returns
chat_result(messages_before, result) ==
  LET bot_generated_new_message == Len(result.messages) - messages_before > 1
      needs_handoff == result.needs_human_handoff
      latest == latest_bot_response(result.messages)
  IN IF /\ bot_generated_new_message
        /\ latest.kind = SEND_PRODUCT_IMAGES_WITH_SUMMARY
        /\ needs_handoff
     THEN Result(latest, TRUE, result.recommended_products,
                 result.conversation_history_summary,
                 build_handoff_reason(result.handoff_reason))
     ELSE IF needs_handoff /\ result.current_stage = "handoff"
                           /\ ~bot_generated_new_message
     THEN Result(NoContent, TRUE, NoProducts, NoSummary,
                 build_handoff_reason(result.handoff_reason))
     ELSE IF needs_handoff
     THEN Result(NoContent, TRUE, NoProducts, NoSummary,
                 build_handoff_reason(result.handoff_reason))
     ELSE IF bot_generated_new_message /\ latest # NoContent
     THEN Result(latest, FALSE, NoProducts, NoSummary, "None")
     ELSE Result(NoContent, TRUE, NoProducts, NoSummary, "None")

(***************************************************************************)
(* The state machine                                                       *)
(***************************************************************************)
\* the longest conversation (human messages between two resets) of the model
MaxTurns == 4

VARIABLES
  messages, requirements, validation, recommended_products, selected_product,
  current_stage, conversation_history_summary, handoff_reason, has_greeted,
  needs_human_handoff,
  h_qty_source, h_budget_source, h_confirmed,
  result, turn,
  ex_message, ex_result

bot == <<messages, requirements, validation, recommended_products, selected_product,
         current_stage, conversation_history_summary, handoff_reason, has_greeted,
         needs_human_handoff, h_qty_source, h_budget_source, h_confirmed>>

ex == <<ex_message, ex_result>>

\* a function of the program applied on its own: its arguments and what it returns
VARIABLES fn_in, fn_out

fn == <<fn_in, fn_out>>

\* the service of bot_api: the checkpoint of every customer's thread, the POST
\* /chat requests received, and the request whose handler holds the event loop
VARIABLES threads, requests, running, written

\* the memory of the bot_api process: the locked conversations; and, as history,
\* the response of the last request, the request itself, and the customers for
\* whom lock_conversation was called with no unlock or reset since
VARIABLES locked_conversations, return_data, last_call, h_lock_requested

service == <<locked_conversations, return_data, last_call, h_lock_requested>>

api == <<threads, requests, running, written, service>>

vars == <<bot, result, turn, ex, fn, api>>

\* the checkpoint of the customer's thread
Checkpoint ==
  [messages |-> messages,
   requirements |-> requirements,
   validation |-> validation,
   recommended_products |-> recommended_products,
   selected_product |-> selected_product,
   current_stage |-> current_stage,
   conversation_history_summary |-> conversation_history_summary,
   handoff_reason |-> handoff_reason,
   has_greeted |-> has_greeted,
   needs_human_handoff |-> needs_human_handoff,
   h_qty_source |-> h_qty_source,
   h_budget_source |-> h_budget_source,
   h_confirmed |-> h_confirmed]

Save(state) ==
  /\ messages' = state.messages
  /\ requirements' = state.requirements
  /\ validation' = state.validation
  /\ recommended_products' = state.recommended_products
  /\ selected_product' = state.selected_product
  /\ current_stage' = state.current_stage
  /\ conversation_history_summary' = state.conversation_history_summary
  /\ handoff_reason' = state.handoff_reason
  /\ has_greeted' = state.has_greeted
  /\ needs_human_handoff' = state.needs_human_handoff
  /\ h_qty_source' = state.h_qty_source
  /\ h_budget_source' = state.h_budget_source
  /\ h_confirmed' = state.h_confirmed

\* history of the last operation: which it was, its message, the nodes it ran,
\* the stage the intent classifier left, and the checkpoint it started from
Turn(op, last_msg, path, after_intent, before) ==
  [op |-> op, last_msg |-> last_msg, path |-> path, after_intent |-> after_intent,
   before |-> before]

HumanCount == Cardinality({i \in 1..Len(messages) : messages[i].role = "human"})

\* the extractor has not run: the dict extract_customer_requirements starts from
NoExtract ==
  [done |-> FALSE,
   extracted |-> [quantity |-> None, budget_per_piece |-> None, timeline |-> NoText,
                  location |-> NoText, preferences |-> <<>>,
                  needs_confirmation |-> FALSE]]

\* the customer ids of the model
Customers == {"c1", "c2"}

\* no function is applied on its own
NotCalled == [name |-> "None"]

\* the JSON a handler of bot_api returns, with the keys the claims are about
Response(status, reply, needs_handoff, products, locked) ==
  [status |-> status, reply |-> reply, needs_handoff |-> needs_handoff,
   products |-> products, locked |-> locked]

NoResponse == Response("None", NoContent, FALSE, NoProducts, FALSE)

\* the endpoint and the customer of a request
Previous(op, user_id) == [op |-> op, user_id |-> user_id]

\* history of the last request: the endpoint, its customer and message, the
\* customer's thread and lock before it, and the request before it
Call(op, user_id, message, before, was_locked, previous) ==
  [op |-> op, user_id |-> user_id, message |-> message, before |-> before,
   was_locked |-> was_locked, previous |-> previous]

\* the service after start: no thread has a checkpoint, no request was received
ServiceStarted ==
  /\ threads = [c \in Customers |-> EmptyState]
  /\ requests = <<>>
  /\ running = 0
  /\ written = [by |-> "None", before |-> [c \in Customers |-> EmptyState]]
  /\ locked_conversations = {}
  /\ h_lock_requested = {}
  /\ fn_in = NotCalled
  /\ fn_out = NotCalled
  /\ return_data = NoResponse
  /\ last_call = Call("start", "None", <<>>, EmptyState, FALSE, Previous("None", "None"))

Init ==
  /\ messages = EmptyState.messages
  /\ requirements = EmptyState.requirements
  /\ validation = EmptyState.validation
  /\ recommended_products = EmptyState.recommended_products
  /\ selected_product = EmptyState.selected_product
  /\ current_stage = EmptyState.current_stage
  /\ conversation_history_summary = EmptyState.conversation_history_summary
  /\ handoff_reason = EmptyState.handoff_reason
  /\ has_greeted = EmptyState.has_greeted
  /\ needs_human_handoff = EmptyState.needs_human_handoff
  /\ h_qty_source = EmptyState.h_qty_source
  /\ h_budget_source = EmptyState.h_budget_source
  /\ h_confirmed = EmptyState.h_confirmed
  /\ result = NoResult
  /\ turn = Turn("init", <<>>, <<>>, "None", EmptyState)
  /\ ex_message = <<>>
  /\ ex_result = NoExtract
  /\ ServiceStarted

\* the end of chat: the invocation run, started from the checkpoint before, has
\* saved its state; the response is built from it
Respond(message, before, run) ==
  /\ Save(run.state)
  /\ result' = chat_result(Len(before.messages), run.state)
  /\ turn' = Turn("chat", message, run.path, run.after_intent, before)

\* POST /chat for a conversation that is not locked: bot.chat(user_id, message)
Chat(message, intent_text, products) ==
  /\ HumanCount < MaxTurns
  /\ Respond(message, Checkpoint,
             invoke([Checkpoint EXCEPT !.messages = Append(@, HumanMessage)],
                    message, intent_text, products))
  /\ UNCHANGED <<ex, fn, api>>

\* POST /reset_conversation: every checkpoint of the thread is deleted
reset_conversation ==
  /\ messages # <<>>
  /\ Save(EmptyState)
  /\ result' = NoResult
  /\ turn' = Turn("reset", <<>>, <<>>, "None", Checkpoint)
  /\ UNCHANGED <<ex, fn, api>>

Next ==
  \/ \E message \in ConvMessages, intent_text \in LlmOutputs, products \in CatalogResults :
       Chat(message, intent_text, products)
  \/ reset_conversation

Spec == Init /\ [][Next]_vars
(***************************************************************************)
(* Messages for the extractor alone: up to MaxParts parts of different     *)
(* kinds, in any order, joined by one separator.                           *)
(***************************************************************************)
\* "500", "22", "50 pieces"
QuantityParts ==
  {<<"5","0","0">>,
   <<"2","2">>,
   <<"5","0"," ","p","i","e","c","e","s">>}

\* "45", "rs 50", "budget rs 100"
BudgetParts ==
  {<<"4","5">>,
   <<"r","s"," ","5","0">>,
   <<"b","u","d","g","e","t"," ","r","s"," ","1","0","0">>}

\* "Feb 22", "asap"
TimelineParts ==
  {<<"F","e","b"," ","2","2">>,
   <<"a","s","a","p">>}

\* "Chennai", "Komarapalayam", "Mumbai"
LocationParts ==
  {<<"C","h","e","n","n","a","i">>,
   <<"K","o","m","a","r","a","p","a","l","a","y","a","m">>,
   <<"M","u","m","b","a","i">>}

\* "\n" and ", "
Separators == {<<"\n">>, <<",", " ">>}

PartKinds == <<QuantityParts, BudgetParts, TimelineParts, LocationParts>>

\* the most parts a message of the extractor's specification has
MaxParts == 4

RECURSIVE Join(_,_)
Join(parts, sep) ==
  IF Len(parts) = 0 THEN <<>>
  ELSE IF Len(parts) = 1 THEN parts[1]
  ELSE parts[1] \o sep \o Join(Tail(parts), sep)

\* the orders of k different kinds of part
KindOrders(k) ==
  {o \in [1..k -> 1..Len(PartKinds)] : \A i, j \in 1..k : i # j => o[i] # o[j]}

\* a timeline keyword and a date in one message, in both orders
KeywordAndDateMessages ==
  {Join(<<pair[1], pair[2]>>, sep) :
     pair \in {p \in TimelineParts \X TimelineParts : p[1] # p[2]}, sep \in Separators}

ExMessages ==
  {Join([i \in 1..Len(o) |-> pick[o[i]]], sep) :
     o \in UNION {KindOrders(k) : k \in 1..Min({MaxParts, Len(PartKinds)})},
     pick \in {p \in [1..Len(PartKinds) -> UNION Range(PartKinds)] :
                 \A g \in 1..Len(PartKinds) : p[g] \in PartKinds[g]},
     sep \in Separators}
  \cup KeywordAndDateMessages

InitExtract ==
  /\ messages = EmptyState.messages
  /\ requirements = EmptyState.requirements
  /\ validation = EmptyState.validation
  /\ recommended_products = EmptyState.recommended_products
  /\ selected_product = EmptyState.selected_product
  /\ current_stage = EmptyState.current_stage
  /\ conversation_history_summary = EmptyState.conversation_history_summary
  /\ handoff_reason = EmptyState.handoff_reason
  /\ has_greeted = EmptyState.has_greeted
  /\ needs_human_handoff = EmptyState.needs_human_handoff
  /\ h_qty_source = EmptyState.h_qty_source
  /\ h_budget_source = EmptyState.h_budget_source
  /\ h_confirmed = EmptyState.h_confirmed
  /\ result = NoResult
  /\ turn = Turn("init", <<>>, <<>>, "None", EmptyState)
  /\ ex_message \in ExMessages
  /\ ex_result = NoExtract
  /\ ServiceStarted

\* extract_customer_requirements.invoke({"message": ex_message})
Extract ==
  /\ ~ex_result.done
  /\ ex_result' = [done |-> TRUE,
                   extracted |-> extract_customer_requirements(ex_message)]
  /\ UNCHANGED <<bot, result, turn, ex_message, fn, api>>

NextExtract == Extract

SpecExtract == InitExtract /\ [][NextExtract]_vars
(***************************************************************************)
(* Turns in which an external call fails (specification SpecFailures).     *)
(* The graph is compiled with a checkpointer: the thread's checkpoint is   *)
(* written when the input is applied and after every node, so a node that  *)
(* raises leaves the checkpoint of the step before it.                     *)
(***************************************************************************)
\* intent_classifier_node gets to PRIORITY 7, the call of the language model
calls_llm(state, last_msg) ==
  /\ ~state.needs_human_handoff
  /\ \E i \in 1..Len(state.messages) : state.messages[i].role = "human"
  /\ ~facts(last_msg).is_image
  /\ ~facts(last_msg).is_quick_query
  /\ state.current_stage # "awaiting_confirmation"
  /\ ~facts(last_msg).is_greeting
  /\ ~facts(last_msg).is_simple_input
  /\ ~facts(last_msg).is_unhandleable

\* the invocation gets to product_search_node, which queries the catalog
calls_catalog(run) == \E i \in 1..Len(run.path) : run.path[i] = "search_products"

\* the state product_search_node is given: the checkpoint written after validate
searched_state(state, last_msg, intent_text) ==
  validation_node(
    requirement_extraction_node(intent_classifier_node(state, last_msg, intent_text),
                                last_msg))

\* the except block of chat
failure_result == Result(NoContent, TRUE, NoProducts, NoSummary, "None")

\* graph.invoke raises in chat: saved is the last checkpoint written, path the
\* nodes that ended, call the external call that failed
Fail(message, before, saved, path, call) ==
  /\ Save(saved)
  /\ result' = failure_result
  /\ turn' = Turn(call, message, path, "None", before)

\* get_state raises in chat: messages_before is 0 and the turn goes on
GetStateFailed(message, before, run) ==
  /\ Save(run.state)
  /\ result' = chat_result(0, run.state)
  /\ turn' = Turn("get_state_failed", message, run.path, run.after_intent, before)

\* POST /chat while the read of the thread's state fails, the invocation succeeds
ChatGetStateFails(message, intent_text, products) ==
  /\ HumanCount < MaxTurns
  /\ GetStateFailed(message, Checkpoint,
                    invoke([Checkpoint EXCEPT !.messages = Append(@, HumanMessage)],
                           message, intent_text, products))
  /\ UNCHANGED <<ex, fn, api>>

\* POST /chat while the checkpointer is unavailable: graph.invoke raises before
\* any checkpoint is written
ChatCheckpointFails(message) ==
  /\ HumanCount < MaxTurns
  /\ Fail(message, Checkpoint, Checkpoint, <<>>, "checkpoint_failed")
  /\ UNCHANGED <<ex, fn, api>>

\* POST /chat while the language model is unavailable: chain.invoke raises in
\* intent_classifier_node, after the input was written to the thread
ClassifierFails(message, before, input) ==
  /\ entry_router(input, message) = "classify_intent"
  /\ calls_llm(input, message)
  /\ Fail(message, before, input, <<>>, "classifier_failed")

ChatClassifierFails(message) ==
  /\ HumanCount < MaxTurns
  /\ ClassifierFails(message, Checkpoint,
                     [Checkpoint EXCEPT !.messages = Append(@, HumanMessage)])
  /\ UNCHANGED <<ex, fn, api>>

\* POST /chat while the catalog is unreachable: search_matching_products raises
\* in product_search_node, after classify_intent, extract_requirements and
\* validate have ended
CatalogFails(message, intent_text, before, input) ==
  /\ calls_catalog(invoke(input, message, intent_text, <<>>))
  /\ Fail(message, before, searched_state(input, message, intent_text),
          <<"classify_intent", "extract_requirements", "validate">>, "catalog_failed")

ChatCatalogFails(message, intent_text) ==
  /\ HumanCount < MaxTurns
  /\ CatalogFails(message, intent_text, Checkpoint,
                  [Checkpoint EXCEPT !.messages = Append(@, HumanMessage)])
  /\ UNCHANGED <<ex, fn, api>>

NextFailures ==
  \/ \E message \in ConvMessages, intent_text \in LlmOutputs, products \in CatalogResults :
       Chat(message, intent_text, products)
  \/ reset_conversation
  \/ \E message \in ConvMessages, intent_text \in LlmOutputs, products \in CatalogResults :
       ChatGetStateFails(message, intent_text, products)
  \/ \E message \in ConvMessages : ChatCheckpointFails(message)
  \/ \E message \in ConvMessages : ChatClassifierFails(message)
  \/ \E message \in ConvMessages, intent_text \in LlmOutputs :
       ChatCatalogFails(message, intent_text)

SpecFailures == Init /\ [][NextFailures]_vars
(***************************************************************************)
(* Concurrent POST /chat requests (specification SpecConcurrent). The      *)
(* handler of bot_api is a coroutine that calls bot.chat without awaiting: *)
(* once it runs it holds the event loop of the single uvicorn worker until *)
(* it returns.                                                             *)
(***************************************************************************)
\* the number of requests of the model
MaxRequests == 3

\* the messages of the requests
ConcMessages == {M_hi, M_50_pcs, M_45}

Request(user_id, message, pc, concurrent, loaded, response) ==
  [user_id |-> user_id, message |-> message, pc |-> pc, concurrent |-> concurrent,
   loaded |-> loaded, response |-> response]

\* the requests of the customer whose handler has not returned
InFlight(user_id) ==
  {i \in 1..Len(requests) : requests[i].user_id = user_id /\ requests[i].pc # "done"}

\* a handler can start: no other handler holds the event loop
loop_is_free_in_threadpool(holder) == TRUE

loop_is_free(holder) == holder = 0

\* a POST /chat request arrives and waits for the event loop
Receive(user_id, message) ==
  /\ Len(requests) < MaxRequests
  /\ requests' = Append(requests,
                        Request(user_id, message, "pending", InFlight(user_id) # {},
                                EmptyState, NoResult))
  /\ UNCHANGED <<threads, running, written>>
  /\ UNCHANGED <<bot, result, turn, ex, fn, service>>

\* the handler starts: bot.chat reads the state of the thread of user_id
Begin(i) ==
  /\ requests[i].pc = "pending"
  /\ loop_is_free(running)
  /\ running' = i
  /\ requests' = [requests EXCEPT ![i].pc = "invoking",
                                  ![i].loaded = threads[requests[i].user_id]]
  /\ UNCHANGED <<threads, written>>
  /\ UNCHANGED <<bot, result, turn, ex, fn, service>>

\* what the handler writes and returns: run is the invocation on the state read
Written(i, loaded, run) ==
  /\ threads' = [threads EXCEPT ![requests[i].user_id] = run.state]
  /\ requests' = [requests EXCEPT ![i].pc = "done",
                                  ![i].response = chat_result(Len(loaded.messages),
                                                              run.state)]
  /\ written' = [by |-> requests[i].user_id, before |-> threads]

\* the handler ends: graph.invoke writes the thread of user_id, chat returns
Finish(i, intent_text, products) ==
  /\ requests[i].pc = "invoking"
  /\ Written(i, requests[i].loaded,
             invoke([requests[i].loaded EXCEPT !.messages = Append(@, HumanMessage)],
                    requests[i].message, intent_text, products))
  /\ running' = 0
  /\ UNCHANGED <<bot, result, turn, ex, fn, service>>

NextConcurrent ==
  \/ \E user_id \in Customers, message \in ConcMessages : Receive(user_id, message)
  \/ \E i \in 1..Len(requests) : Begin(i)
  \/ \E i \in 1..Len(requests), intent_text \in LlmOutputs, products \in CatalogResults :
       Finish(i, intent_text, products)

SpecConcurrent == Init /\ [][NextConcurrent]_vars
(***************************************************************************)
(* The endpoints of bot_api for several customers, and the restart of the  *)
(* process (specification SpecService). A handler runs from start to end   *)
(* without another one in between. The threads are kept by the Postgres    *)
(* checkpointer, locked_conversations is a dict of the process.            *)
(***************************************************************************)
\* the most customer messages that the threads hold together
MaxServiceTurns == 4

\* the messages of the requests: "hi", "pp", the ambiguous example, "yes", "45"
ServiceMessages == {M_hi, M_pp, M_ambiguous, M_yes, M_45}

\* what the model leaves alone in this specification
dialogue_and_requests == <<bot, result, turn, ex, fn, requests, running, written>>

\* none of the messages above gets to the language model
ServiceLlmOutputs == {L_browse}

RECURSIVE SumOver(_, _)
SumOver(f, S) ==
  IF S = {} THEN 0
  ELSE LET c == CHOOSE x \in S : TRUE IN f[c] + SumOver(f, S \ {c})

\* the customer messages held by all threads
ServiceTurns ==
  SumOver([c \in Customers |->
             Cardinality({k \in 1..Len(threads[c].messages) :
                            threads[c].messages[k].role = "human"})],
          Customers)

\* a process that kept the threads in its own memory would start without them
threads_in_memory(persisted) == [c \in Customers |-> EmptyState]

\* the threads a new ProductionVihaBot sees: those written to Postgres
threads_after_restart(persisted) == persisted

\* PRIORITY CHECK of chat: request.user_id in locked_conversations
is_locked(user_id, locked) == user_id \in locked

\* a reset that leaves the lock of the customer in place
locks_kept_by_reset(user_id, locked) == locked

\* reset_conversation: del locked_conversations[user_id] if present
locks_after_reset(user_id, locked) == locked \ {user_id}

\* POST /lock_conversation
lock_conversation(user_id) ==
  /\ locked_conversations' = locked_conversations \cup {user_id}
  /\ h_lock_requested' = h_lock_requested \cup {user_id}
  /\ return_data' = Response("success", NoContent, FALSE, NoProducts, TRUE)
  /\ last_call' = Call("lock", user_id, <<>>, threads[user_id],
                       user_id \in locked_conversations,
                       Previous(last_call.op, last_call.user_id))
  /\ UNCHANGED threads
  /\ UNCHANGED dialogue_and_requests

\* POST /unlock_conversation
unlock_conversation(user_id) ==
  /\ locked_conversations' = locked_conversations \ {user_id}
  /\ h_lock_requested' = h_lock_requested \ {user_id}
  /\ return_data' = Response(IF user_id \in locked_conversations
                             THEN "success" ELSE "not_locked",
                             NoContent, FALSE, NoProducts, FALSE)
  /\ last_call' = Call("unlock", user_id, <<>>, threads[user_id],
                       user_id \in locked_conversations,
                       Previous(last_call.op, last_call.user_id))
  /\ UNCHANGED threads
  /\ UNCHANGED dialogue_and_requests

\* POST /reset_conversation: the checkpoints of the thread are deleted
ResetConversation(user_id) ==
  /\ threads' = [threads EXCEPT ![user_id] = EmptyState]
  /\ locked_conversations' = locks_after_reset(user_id, locked_conversations)
  /\ h_lock_requested' = h_lock_requested \ {user_id}
  /\ return_data' = Response("success", NoContent, FALSE, NoProducts, FALSE)
  /\ last_call' = Call("reset", user_id, <<>>, threads[user_id],
                       user_id \in locked_conversations,
                       Previous(last_call.op, last_call.user_id))
  /\ UNCHANGED dialogue_and_requests

\* chat for a locked conversation: the bot is not called
LockedChat(user_id, message) ==
  /\ return_data' = Response("locked", NoContent, FALSE, NoProducts, TRUE)
  /\ last_call' = Call("chat", user_id, message, threads[user_id], TRUE,
                       Previous(last_call.op, last_call.user_id))
  /\ UNCHANGED <<threads, locked_conversations, h_lock_requested>>

\* chat for a conversation that is not locked: bot.chat, then return_data
NormalChat(user_id, message, before, r) ==
  /\ threads' = [threads EXCEPT ![user_id] = r.state]
  /\ return_data' = Response("success", r.result.reply, r.result.needs_handoff,
                             r.result.products, FALSE)
  /\ last_call' = Call("chat", user_id, message, before, FALSE,
                       Previous(last_call.op, last_call.user_id))
  /\ UNCHANGED <<locked_conversations, h_lock_requested>>

\* bot.chat(user_id, message): the state it saves and the dict it returns
bot_chat(before, run) ==
  [state |-> run.state, result |-> chat_result(Len(before.messages), run.state)]

\* POST /chat
ApiChat(user_id, message, intent_text, products) ==
  /\ IF is_locked(user_id, locked_conversations)
     THEN LockedChat(user_id, message)
     ELSE /\ ServiceTurns < MaxServiceTurns
          /\ NormalChat(user_id, message, threads[user_id],
                        bot_chat(threads[user_id],
                                 invoke([threads[user_id] EXCEPT
                                           !.messages = Append(@, HumanMessage)],
                                        message, intent_text, products)))
  /\ UNCHANGED dialogue_and_requests

\* the process ends and a new one starts: bot = ProductionVihaBot() and
\* locked_conversations = {} run again
Restart ==
  /\ threads' = threads_after_restart(threads)
  /\ locked_conversations' = {}
  /\ UNCHANGED h_lock_requested
  /\ return_data' = NoResponse
  /\ last_call' = Call("restart", "None", <<>>, EmptyState, FALSE,
                       Previous(last_call.op, last_call.user_id))
  /\ UNCHANGED dialogue_and_requests

NextService ==
  \/ \E user_id \in Customers, message \in ServiceMessages,
        intent_text \in ServiceLlmOutputs, products \in CatalogResults :
       ApiChat(user_id, message, intent_text, products)
  \/ \E user_id \in Customers : lock_conversation(user_id)
  \/ \E user_id \in Customers : unlock_conversation(user_id)
  \/ \E user_id \in Customers : ResetConversation(user_id)
  \/ Restart

SpecService == Init /\ [][NextService]_vars
(***************************************************************************)
(* calculate_timeline_urgency on its own (specification SpecTimeline)      *)
(***************************************************************************)
\* the timelines: the codes of the extractor, a code in capitals, a keyword that
\* is no code, and dates as the extractor stores them
Timelines ==
  Range(timeline_codes) \cup
  {<<"A","S","A","P">>, <<"u","r","g","e","n","t">>, <<"f","e","b"," ","2","2">>,
   <<"1","4","/","0","2">>}

\* the days that today can be
FirstDay == 10
LastDay == 12

\* the days the parser can return: before today, today, and up to MaxAhead later
MaxAhead == 16

\* no conversation, no request: the state in which a function is applied on its own
NoDialogue ==
  /\ messages = EmptyState.messages
  /\ requirements = EmptyState.requirements
  /\ validation = EmptyState.validation
  /\ recommended_products = EmptyState.recommended_products
  /\ selected_product = EmptyState.selected_product
  /\ current_stage = EmptyState.current_stage
  /\ conversation_history_summary = EmptyState.conversation_history_summary
  /\ handoff_reason = EmptyState.handoff_reason
  /\ has_greeted = EmptyState.has_greeted
  /\ needs_human_handoff = EmptyState.needs_human_handoff
  /\ h_qty_source = EmptyState.h_qty_source
  /\ h_budget_source = EmptyState.h_budget_source
  /\ h_confirmed = EmptyState.h_confirmed
  /\ result = NoResult
  /\ turn = Turn("init", <<>>, <<>>, "None", EmptyState)
  /\ ex_message = <<>>
  /\ ex_result = NoExtract
  /\ threads = [c \in Customers |-> EmptyState]
  /\ requests = <<>>
  /\ running = 0
  /\ written = [by |-> "None", before |-> [c \in Customers |-> EmptyState]]
  /\ locked_conversations = {}
  /\ h_lock_requested = {}
  /\ return_data = NoResponse
  /\ last_call = Call("start", "None", <<>>, EmptyState, FALSE, Previous("None", "None"))

InitTimeline ==
  /\ NoDialogue
  /\ fn_in \in {[name |-> "calculate_timeline_urgency", timeline |-> t, today |-> d,
                  parsed |-> p] :
                   t \in Timelines, d \in FirstDay..LastDay,
                   p \in {ParseFails} \cup (FirstDay - 2)..(LastDay + MaxAhead)}
  /\ fn_out = NotCalled

\* calculate_timeline_urgency.invoke({"timeline": timeline})
Resolve ==
  /\ fn_out = NotCalled
  /\ fn_out' = calculate_timeline_urgency(fn_in.timeline, fn_in.today, fn_in.parsed)
  /\ UNCHANGED <<bot, result, turn, ex, fn_in, api>>

NextTimeline == Resolve

SpecTimeline == InitTimeline /\ [][NextTimeline]_vars
(***************************************************************************)
(* The SMART MERGE of requirement_extraction_node on its own               *)
(* (specification SpecMerge)                                               *)
(***************************************************************************)
\* the values of the fields: None or [] and one or two values each
MergeQuantities == {None, 50, 100}
MergeBudgets == {None, 100}
MergeTimelines == {NoText, <<"a","s","a","p">>}
MergeLocations == {NoText, <<"C","h","e","n","n","a","i">>}
MergePreferences == {<<>>, <<"eco_friendly">>}

\* the dicts extract_customer_requirements can return over these values
MergeExtractions ==
  [quantity : MergeQuantities, budget_per_piece : MergeBudgets,
   timeline : MergeTimelines, location : MergeLocations,
   preferences : MergePreferences, needs_confirmation : BOOLEAN]

InitMerge ==
  /\ NoDialogue
  /\ fn_in \in {[name |-> "smart_merge", current_req |-> Requirements(c),
                  extracted |-> e, has_qty_keyword |-> hq, has_budget_keyword |-> hb] :
                   c \in MergeExtractions, e \in MergeExtractions,
                   hq \in BOOLEAN, hb \in BOOLEAN}
  /\ fn_out = NotCalled

\* if current_req: for key, value in extracted.items(): ...
Merge ==
  /\ fn_out = NotCalled
  /\ fn_out' = smart_merge(fn_in.current_req, fn_in.extracted, fn_in.has_qty_keyword,
                           fn_in.has_budget_keyword)
  /\ UNCHANGED <<bot, result, turn, ex, fn_in, api>>

NextMerge == Merge

SpecMerge == InitMerge /\ [][NextMerge]_vars
(***************************************************************************)
(* One invocation of the graph on its own, for every answer of the         *)
(* language model (specification SpecClassify).                            *)
(***************************************************************************)
\* answers of the language model, lower-cased: 'product', 'greeting',
\* 'track_order', 'ask_question', '', 'complaint about a product',
\* 'greeting, then ask_question'
L_product == <<"p","r","o","d","u","c","t">>

L_greeting == <<"g","r","e","e","t","i","n","g">>

L_track_order == <<"t","r","a","c","k","_","o","r","d","e","r">>

L_ask_question == <<"a","s","k","_","q","u","e","s","t","i","o","n">>

L_empty == <<>>

L_product_complaint == L_complaint \o <<" ","a","b","o","u","t"," ","a"," ">> \o L_product

L_greeting_question == L_greeting \o <<","," ","t","h","e","n"," ">> \o L_ask_question

ClassifierOutputs ==
  {L_browse, L_complaint, L_unknown, L_product, L_greeting, L_track_order,
   L_ask_question, L_empty, L_product_complaint, L_greeting_question}

\* the input of graph.invoke in chat: the checkpoint with the new HumanMessage
graph_input(checkpoint) == [checkpoint EXCEPT !.messages = Append(@, HumanMessage)]

\* the checkpoint of a customer who has been greeted
GreetedThread == invoke(graph_input(EmptyState), M_hi, L_browse, <<>>).state

\* the checkpoint of a greeted customer who has sent one number and was asked
\* for the missing fields
AskedThread == invoke(graph_input(GreetedThread), M_45, L_browse, <<>>).state

ClassifyThreads == {GreetedThread, AskedThread}

InitClassify ==
  /\ NoDialogue
  /\ fn_in \in {[name |-> "invoke", checkpoint |-> c, last_msg |-> m,
                  intent_text |-> t, products |-> p] :
                   c \in ClassifyThreads, m \in ConvMessages,
                   t \in ClassifierOutputs, p \in CatalogResults}
  /\ fn_out = NotCalled

\* result = self.graph.invoke(input_state, config)
Classify ==
  /\ fn_out = NotCalled
  /\ fn_out' = invoke(graph_input(fn_in.checkpoint), fn_in.last_msg, fn_in.intent_text,
                      fn_in.products)
  /\ UNCHANGED <<bot, result, turn, ex, fn_in, api>>

NextClassify == Classify

SpecClassify == InitClassify /\ [][NextClassify]_vars
(***************************************************************************)
(* Properties of the dialogue (specification Spec)                         *)
(***************************************************************************)
\* the number of assistant messages of a history
AICount(msgs) == Cardinality({i \in 1..Len(msgs) : msgs[i].role = "ai"})

\* the last operation was a chat turn that ran the node
Ran(node) == \E i \in 1..Len(turn.path) : turn.path[i] = node

\* the last operation was a chat turn that started in handoff
TurnFromHandoff ==
  /\ turn.op = "chat"
  /\ turn.before.needs_human_handoff
  /\ turn.before.current_stage = "handoff"

\* C1: a chat turn that starts with needs_human_handoff = true and
\* current_stage = handoff, and whose message is not a greeting keyword, leaves
\* current_stage as it was and appends no assistant message.
C1_HandoffIsQuiet ==
  (TurnFromHandoff /\ ~is_greeting(turn.last_msg))
    => /\ current_stage = turn.before.current_stage
       /\ AICount(messages) = AICount(turn.before.messages)

C3_GreetingRestartsAfterHandoff ==
  (TurnFromHandoff /\ is_greeting(turn.last_msg))
    => /\ requirements = NoRequirements
       /\ recommended_products = NoProducts
       /\ selected_product = "None"
       /\ validation = "None"
       /\ ~needs_human_handoff
       /\ handoff_reason = "None"
       /\ current_stage = "requirement_extraction"

\* quantity, budget, timeline and location all set and needs_confirmation false
Complete(req) ==
  /\ ~req.is_none
  /\ req.quantity # None
  /\ req.budget_per_piece # None
  /\ req.timeline # NoText
  /\ req.location # NoText
  /\ ~req.needs_confirmation

\* C4: in every chat turn, validation, product search and recommendation run
\* only if the requirement record has quantity, budget, timeline and location
\* set and needs_confirmation = false; a turn that extracts requirements and
\* leaves the record otherwise goes to ask_confirmation and searches nothing.
C4_SearchOnlyWhenComplete ==
  turn.op = "chat"
    => /\ (Ran("validate") \/ Ran("search_products") \/ Ran("recommend"))
            => Complete(requirements)
       /\ (Ran("extract_requirements") /\ ~Complete(requirements))
            => /\ Ran("ask_confirmation")
               /\ ~Ran("validate") /\ ~Ran("search_products") /\ ~Ran("recommend")
               /\ recommended_products = turn.before.recommended_products

\* C4, its cases: a turn that searched with a complete record, after a turn
\* that asked because the location was missing
C4_Witness ==
  /\ turn.op = "chat"
  /\ Ran("search_products")
  /\ Complete(requirements)
  /\ turn.before.current_stage = "requirement_extraction"
  /\ ~turn.before.requirements.is_none
  /\ turn.before.requirements.location = NoText

\* C5: a chat turn that starts at awaiting_confirmation: with an affirmative
\* word it leaves needs_confirmation = false and, when timeline and location
\* are set, runs validation, product search and recommendation and ends in
\* handoff; with any other message that is neither an image marker nor a quick
\* price query the classifier sets the stage to requirement_extraction and the
\* message goes through requirement extraction.
C5_ConfirmationReply ==
  (turn.op = "chat" /\ turn.before.current_stage = "awaiting_confirmation")
    => IF is_affirmative(turn.last_msg)
       THEN /\ ~requirements.needs_confirmation
            /\ (requirements.timeline # NoText /\ requirements.location # NoText)
                 => /\ Ran("validate") /\ Ran("search_products") /\ Ran("recommend")
                    /\ current_stage = "handoff"
                    /\ needs_human_handoff
       ELSE (~is_image(turn.last_msg) /\ ~is_quick_query(turn.last_msg))
              => /\ turn.after_intent = "requirement_extraction"
                 /\ Ran("extract_requirements")

\* C5, its case: "yes" to the confirmation prompt of a record that has its
\* timeline and location, answered by the recommendation
C5_Witness ==
  /\ turn.op = "chat"
  /\ turn.before.current_stage = "awaiting_confirmation"
  /\ turn.last_msg = M_yes
  /\ turn.before.requirements.needs_confirmation
  /\ ~requirements.needs_confirmation
  /\ Ran("recommend")
  /\ current_stage = "handoff"
\* C6: at the end of every turn, needs_confirmation = true only if the stored
\* quantity and the stored budget are both set and neither stored value was
\* obtained by a keyword-anchored extraction.
C6_ConfirmationOnlyForUnanchored ==
  (turn.op = "chat" /\ ~requirements.is_none /\ requirements.needs_confirmation)
    => /\ requirements.quantity # None
       /\ requirements.budget_per_piece # None
       /\ h_qty_source # "keyword"
       /\ h_budget_source # "keyword"

\* C7: after an affirmative reply has confirmed the stored quantity and budget,
\* needs_confirmation is false at the end of every later turn in which quantity
\* and budget still hold the confirmed values.
C7_ConfirmedStaysConfirmed ==
  (/\ turn.op = "chat"
   /\ ~h_confirmed.is_none
   /\ ~requirements.is_none
   /\ requirements.quantity = h_confirmed.quantity
   /\ requirements.budget_per_piece = h_confirmed.budget_per_piece)
    => ~requirements.needs_confirmation

\* the extraction of the message finds the field, and not by a keyword pattern
PositionalQuantity(message) ==
  extraction(message).extracted.quantity # None /\ ~extraction(message).qk

PositionalBudget(message) ==
  extraction(message).extracted.budget_per_piece # None /\ ~extraction(message).bk

\* C8: if the stored quantity (or budget) was set by a keyword-anchored
\* extraction, a later message whose extraction of that field is purely
\* positional does not change the stored value.
C8_AnchoredValueIsKept ==
  (turn.op = "chat" /\ ~turn.before.requirements.is_none)
    => /\ (turn.before.h_qty_source = "keyword" /\ PositionalQuantity(turn.last_msg))
            => requirements.quantity = turn.before.requirements.quantity
       /\ (turn.before.h_budget_source = "keyword" /\ PositionalBudget(turn.last_msg))
            => requirements.budget_per_piece
                 = turn.before.requirements.budget_per_piece
(***************************************************************************)
(* Properties of the extractor (specification SpecExtract)                 *)
(***************************************************************************)
\* the numeric tokens of the message that lie in no date match, in textual order
unconsumed_numbers(message) ==
  LET ms == date_matches(lower(message))
  IN SelectSeq(all_numbers(message),
               LAMBDA n : \A k \in 1..Len(ms) : n.end < ms[k].start \/ n.start > ms[k].end)

\* no keyword-anchored pattern of quantity or budget matches the message
NoAnchoringKeywords(message) ==
  ~qty_used_keyword(message) /\ ~budget_used_keyword(message)

\* the parts that are a number and nothing else
BareNumbers == {p \in QuantityParts \cup BudgetParts : isdigit(p)}

\* the timeline parts that are a date with a month name
MonthNameDates == {p \in TimelineParts : \E i \in 1..Len(p) : MonthAt(lower(p), i)}

\* two bare numbers, a month-name date and a city on separate lines
FourLines(first, second, date, city) == Join(<<first, second, date, city>>, <<"\n">>)

\* C9: for every message without anchoring keywords and with at least two
\* numeric tokens outside the date match, extract gives the first of them to
\* quantity and the second to budget and sets needs_confirmation = true; and
\* two bare numbers, a month-name date and a city on separate lines give
\* quantity = first number, budget = second number, timeline = the date and
\* location = the city.
C9_PositionalAssignment ==
  ex_result.done
    => LET e == ex_result.extracted
           u == unconsumed_numbers(ex_message)
       IN /\ (NoAnchoringKeywords(ex_message) /\ Len(u) >= 2)
               => /\ e.quantity = ToInt(u[1].text)
                  /\ e.budget_per_piece = ToInt(u[2].text)
                  /\ e.needs_confirmation
          /\ \A first, second \in BareNumbers, date \in MonthNameDates,
                city \in LocationParts :
               ex_message = FourLines(first, second, date, city)
                 => /\ e.quantity = ToInt(first)
                    /\ e.budget_per_piece = ToInt(second)
                    /\ lower(e.timeline) = lower(date)
                    /\ e.location = city

\* a quantity with a unit word, a budget with a budget or currency word
UnitQuantities == {p \in QuantityParts : AnyContains(lower(p), qty_units)}

WordBudgets == {p \in BudgetParts : ~isdigit(p)}

TimelineKeywords == {p \in TimelineParts : timeline_keyword(lower(p)) # NoText}

\* the message gives a quantity with a unit word, a budget with a budget or
\* currency word, a timeline keyword and a known city
FourAnchoredParts(message) ==
  /\ \E p \in UnitQuantities : Contains(message, p)
  /\ \E p \in WordBudgets : Contains(message, p)
  /\ \E p \in TimelineKeywords : Contains(message, p)
  /\ \E p \in LocationParts : Contains(message, p)

\* C10: extract sets needs_confirmation = true if and only if quantity and
\* budget are both populated and neither was matched by a keyword-anchored
\* pattern; and a message giving the quantity with a unit word, the budget with
\* a budget or currency word, a timeline keyword and a known city yields all
\* four fields with needs_confirmation = false.
C10_ConfirmationFlag ==
  ex_result.done
    => LET e == ex_result.extracted
       IN /\ e.needs_confirmation
               <=> /\ e.quantity # None
                   /\ e.budget_per_piece # None
                   /\ NoAnchoringKeywords(ex_message)
          /\ FourAnchoredParts(ex_message)
               => /\ e.quantity # None
                  /\ e.budget_per_piece # None
                  /\ e.timeline # NoText
                  /\ e.location # NoText
                  /\ ~e.needs_confirmation
\* the characters a..b of the message lie inside a date match
InDateMatch(message, a, b) ==
  LET ms == date_matches(lower(message))
  IN \E k \in 1..Len(ms) : ms[k].start <= a /\ b <= ms[k].end

\* C11: a numeric token consumed by a date match is never assigned to quantity
\* or budget: not by the keyword patterns of quantity, not by the keyword
\* patterns of budget, and not by the positional fallback, whose candidates
\* are exactly the numeric tokens outside every date match (only the consumed
\* tokens are skipped, another occurrence of the same number stays eligible).
C11_DateTokensAreClaimed ==
  ex_result.done
    => LET q == qty_match(lower(ex_message))
           b == budget_match(lower(ex_message))
       IN /\ q.found => ~InDateMatch(ex_message, q.start, q.end)
          /\ b.found => ~InDateMatch(ex_message, b.start, b.end)
          /\ non_date_numbers(ex_message) = ints(unconsumed_numbers(ex_message))
\* the last operation was a chat turn that reached requirement extraction with
\* a message that is one integer and nothing else, a requirement record existing
SingleNumberTurn ==
  /\ turn.op = "chat"
  /\ Ran("extract_requirements")
  /\ is_single_number(turn.last_msg)
  /\ ~turn.before.requirements.is_none

\* C12: in a turn that reaches requirement extraction with a message that is
\* exactly one integer, a requirement record existing, the integer is written
\* into quantity if quantity is empty, otherwise into budget if budget is empty;
\* every other field of the record (timeline, location, preferences,
\* needs_confirmation) is as before, and the value comes from the sequential
\* filling, not from the general extractor.
C12_SequentialFill ==
  SingleNumberTurn
    => LET before == turn.before.requirements
           number == ToInt(strip(turn.last_msg))
       IN IF before.quantity = None
          THEN /\ requirements = [before EXCEPT !.quantity = number]
               /\ h_qty_source = "sequential"
               /\ h_budget_source = turn.before.h_budget_source
          ELSE (before.budget_per_piece = None)
                 => /\ requirements = [before EXCEPT !.budget_per_piece = number]
                    /\ h_budget_source = "sequential"
                    /\ h_qty_source = turn.before.h_qty_source

\* C12, its case: the record has a quantity and no budget, "45" fills the budget
C12_Witness ==
  /\ SingleNumberTurn
  /\ turn.last_msg = M_45
  /\ turn.before.requirements.quantity # None
  /\ turn.before.requirements.budget_per_piece = None
  /\ requirements.budget_per_piece = 45
  /\ requirements.timeline = turn.before.requirements.timeline
  /\ h_budget_source = "sequential"
\* the last operation was a chat turn of a conversation that was not handed off
TurnOutsideHandoff ==
  /\ turn.op = "chat"
  /\ ~turn.before.needs_human_handoff
  /\ turn.before.current_stage # "handoff"

\* the turn ended in handoff with the reason, chat returned no reply, and no
\* assistant message (so no greeting) was appended
SilentHandoff(reason) ==
  /\ current_stage = "handoff"
  /\ needs_human_handoff
  /\ handoff_reason = reason
  /\ result.reply = NoContent
  /\ result.needs_handoff
  /\ result.handoff_reason = build_handoff_reason(reason)
  /\ AICount(messages) = AICount(turn.before.messages)
  /\ has_greeted = turn.before.has_greeted

\* C13: at every point of a conversation that is not handed off, the very
\* first message included, a message that contains the image marker ends the
\* turn in handoff with reason image_sent, and a message of at most 20
\* characters that holds a quick price phrase ends it in handoff with reason
\* quick_price_query; the reply is None and no greeting is emitted.
C13_ImageAndQuickQueryHandOff ==
  TurnOutsideHandoff
    => /\ is_image(turn.last_msg) => SilentHandoff("image_sent")
       /\ (~is_image(turn.last_msg) /\ is_quick_query(turn.last_msg))
            => SilentHandoff("quick_price_query")

\* C13, its case: the image marker as the very first message of a conversation
C13_Witness ==
  /\ TurnOutsideHandoff
  /\ turn.before.messages = <<>>
  /\ turn.last_msg = M_image
  /\ SilentHandoff("image_sent")
  /\ ~has_greeted
\* the fixed greeting prompt
GreetingPrompt == Content("greeting", None, None, <<>>)

\* C14: for a conversation that has never greeted, a message that is neither
\* an image marker nor a quick price query gets exactly the greeting prompt as
\* the reply, sets has_greeted = true and the stage to intent_classification,
\* and leaves the requirement record as it was.
C14_NewCustomerIsGreeted ==
  (/\ turn.op = "chat"
   /\ ~turn.before.has_greeted
   /\ ~is_image(turn.last_msg)
   /\ ~is_quick_query(turn.last_msg))
    => /\ result.reply = GreetingPrompt
       /\ has_greeted
       /\ current_stage = "intent_classification"
       /\ requirements = turn.before.requirements
\* C15: in a greeted conversation that is neither handed off nor awaiting
\* confirmation, every message that contains an out-of-scope keyword ends the
\* turn in handoff with reason unhandleable_query and is not processed as
\* requirement input.
C15_OutOfScopeHandsOff ==
  (/\ turn.op = "chat"
   /\ turn.before.has_greeted
   /\ ~turn.before.needs_human_handoff
   /\ turn.before.current_stage \notin {"handoff", "awaiting_confirmation"}
   /\ is_unhandleable(turn.last_msg))
    => /\ current_stage = "handoff"
       /\ needs_human_handoff
       /\ handoff_reason = "unhandleable_query"
       /\ ~Ran("extract_requirements")

\* what recommendation_node says when no product is found
Apology(budget) == Content("no_products", None, budget, <<>>)

TurnFailed ==
  turn.op \in {"get_state_failed", "checkpoint_failed", "classifier_failed",
               "catalog_failed"}

\* C17: a chat turn in which the classifier, the catalog query or the
\* persistence fails returns reply None, needs_handoff true and products None
C17_FailureIsSilentHandoff ==
  TurnFailed => /\ result.reply = NoContent
                /\ result.needs_handoff
                /\ result.products = NoProducts

\* C18: after a chat turn in which an external call failed and the caller was
\* told needs_handoff, the checkpoint is the one from before the turn or has
\* needs_human_handoff set
C18_FailureLeavesConsistentState ==
  (TurnFailed /\ result.needs_handoff)
    => (Checkpoint = turn.before \/ needs_human_handoff)

\* the nodes of the graph
Nodes ==
  {"greeting", "classify_intent", "extract_requirements", "ask_confirmation",
   "validate", "search_products", "recommend"}

\* the last operation was a call of chat, with or without a failing external call
TurnOfChat == turn.op = "chat" \/ TurnFailed

\* C19: in every call of chat each node of the graph runs at most once, and the
\* result has a reply or has needs_handoff set
C19_TurnEndsWithReplyOrHandoff ==
  TurnOfChat
    => /\ \A i \in 1..Len(turn.path) : turn.path[i] \in Nodes
       /\ \A i, j \in 1..Len(turn.path) : turn.path[i] = turn.path[j] => i = j
       /\ (result.reply # NoContent \/ result.needs_handoff)

\* a turn that ran the longest path of the graph and sent the product marker
C19_Witness ==
  /\ turn.op = "chat"
  /\ turn.path = <<"classify_intent", "extract_requirements", "validate",
                   "search_products", "recommend">>
  /\ result.reply # NoContent
  /\ result.needs_handoff

(***************************************************************************)
(* Properties of concurrent requests (SpecConcurrent)                      *)
(***************************************************************************)
\* the requests of the customer that have read the thread and not yet written it
Invoking(user_id) ==
  {i \in 1..Len(requests) : requests[i].user_id = user_id /\ requests[i].pc = "invoking"}

\* the requests of the customer whose handler has returned
Done(user_id) ==
  {i \in 1..Len(requests) : requests[i].user_id = user_id /\ requests[i].pc = "done"}

HumanMessages(msgs) == {k \in 1..Len(msgs) : msgs[k].role = "human"}

\* C20: at most one turn of a customer is between its read and its write of the
\* customer's state, the state it read is still the state of the thread, the
\* thread holds the message of every turn that has ended, and the last write
\* changed the thread of no other customer
C20_OneTurnPerCustomer ==
  \A c \in Customers :
    /\ Cardinality(Invoking(c)) <= 1
    /\ \A i \in Invoking(c) : requests[i].loaded = threads[c]
    /\ Cardinality(HumanMessages(threads[c].messages)) = Cardinality(Done(c))
    /\ (written.by # c => threads[c] = written.before[c])

\* two requests of one customer were in flight together and both have ended,
\* while a request of the other customer has ended too
C20_Witness ==
  \E c \in Customers, d \in Customers :
    /\ c # d
    /\ Cardinality(Done(c)) = 2
    /\ \E i \in Done(c) : requests[i].concurrent
    /\ Cardinality(Done(d)) = 1

C22_LockedCustomerGetsNoReply ==
  (last_call.op = "chat" /\ last_call.user_id \in h_lock_requested)
    => /\ return_data.reply = NoContent
       /\ return_data.locked
       /\ threads[last_call.user_id] = last_call.before

\* a message that is neither an image nor a quick price query
Ordinary(message) == ~facts(message).is_image /\ ~facts(message).is_quick_query

\* C23: after reset_conversation the customer has no persisted state and no lock,
\* and the customer's next message, when it is an ordinary one, is handled as
\* the first message of a new conversation: the reply is the greeting prompt,
\* the requirement record is empty and there is no handoff
C23_ResetStartsAfresh ==
  /\ last_call.op = "reset"
       => /\ threads[last_call.user_id] = EmptyState
          /\ last_call.user_id \notin locked_conversations
  /\ (/\ last_call.op = "chat"
      /\ last_call.previous = Previous("reset", last_call.user_id)
      /\ Ordinary(last_call.message))
       => /\ return_data.reply = GreetingPrompt
          /\ ~return_data.locked
          /\ ~return_data.needs_handoff
          /\ threads[last_call.user_id] = greeting_node(
               [EmptyState EXCEPT !.messages = <<HumanMessage>>])

\* a customer whose conversation was reset sends "45" and is greeted
C23_Witness ==
  /\ last_call.op = "chat"
  /\ last_call.previous = Previous("reset", last_call.user_id)
  /\ last_call.message = M_45
  /\ return_data.reply = GreetingPrompt
  /\ threads[last_call.user_id].requirements = NoRequirements

(***************************************************************************)
(* Properties of calculate_timeline_urgency (SpecTimeline)                 *)
(***************************************************************************)
\* the days offset and urgency tier of the canonical codes
CanonicalCodes ==
  { <<<<"a","s","a","p">>, 1, "critical">>,
    <<<<"t","o","d","a","y">>, 0, "critical">>,
    <<<<"t","o","m","o","r","r","o","w">>, 1, "high">>,
    <<<<"t","h","i","s","_","w","e","e","k">>, 5, "medium">>,
    <<<<"n","e","x","t","_","w","e","e","k">>, 7, "medium">>,
    <<<<"t","w","o","_","w","e","e","k","s">>, 14, "low">>,
    <<<<"o","n","e","_","m","o","n","t","h">>, 30, "low">> }

\* C24: for every canonical timeline code the result has the code's days offset
\* and urgency tier, the delivery date is today plus the offset, and the order
\* is a rush order exactly when the tier is critical or high
C24_CanonicalCodes ==
  \A c \in CanonicalCodes :
    (fn_out # NotCalled /\ fn_in.timeline = c[1])
      => /\ fn_out.days_remaining = c[2]
         /\ fn_out.urgency_level = c[3]
         /\ fn_out.delivery_date = fn_in.today + c[2]
         /\ fn_out.is_rush_order = (c[3] \in {"critical", "high"})

\* asap resolved: tomorrow, critical, rush
C24_Witness ==
  /\ fn_out # NotCalled
  /\ fn_in.timeline = <<"a","s","a","p">>
  /\ fn_out.delivery_date = fn_in.today + 1
  /\ fn_out.urgency_level = "critical"
  /\ fn_out.is_rush_order

\* a field of the requirement record that is unset or a positive integer
UnsetOrPositive(value) == value = None \/ value > 0

\* C25: in every conversation state quantity and budget_per_piece are each
\* unset or a strictly positive integer
C25_PositiveNumbers ==
  requirements.is_none
    \/ (/\ UnsetOrPositive(requirements.quantity)
        /\ UnsetOrPositive(requirements.budget_per_piece))

(***************************************************************************)
(* Properties of the SMART MERGE (SpecMerge)                               *)
(***************************************************************************)
\* every value the extraction holds equals the value stored in the record
ExtractedEqualsStored(current_req, extracted) ==
  /\ extracted.quantity \in {None, current_req.quantity}
  /\ extracted.budget_per_piece \in {None, current_req.budget_per_piece}
  /\ extracted.timeline \in {NoText, current_req.timeline}
  /\ extracted.location \in {NoText, current_req.location}
  /\ extracted.preferences \in {<<>>, current_req.preferences}

\* C26: the merge of an extraction whose values all equal the stored values
\* leaves quantity, budget, timeline, location and preferences as they were
C26_MergeIsIdempotent ==
  (fn_out # NotCalled /\ ExtractedEqualsStored(fn_in.current_req, fn_in.extracted))
    => /\ fn_out.quantity = fn_in.current_req.quantity
       /\ fn_out.budget_per_piece = fn_in.current_req.budget_per_piece
       /\ fn_out.timeline = fn_in.current_req.timeline
       /\ fn_out.location = fn_in.current_req.location
       /\ fn_out.preferences = fn_in.current_req.preferences

\* a full record merged with an extraction that repeats its quantity and its
\* location, without keywords, and sets needs_confirmation
C26_Witness ==
  /\ fn_out # NotCalled
  /\ fn_in.current_req.quantity = 50
  /\ fn_in.current_req.budget_per_piece = 100
  /\ fn_in.current_req.timeline # NoText
  /\ fn_in.extracted.quantity = 50
  /\ fn_in.extracted.budget_per_piece = None
  /\ fn_in.extracted.location = fn_in.current_req.location
  /\ fn_in.extracted.location # NoText
  /\ ~fn_in.has_qty_keyword
  /\ fn_in.extracted.needs_confirmation
  /\ ~fn_in.current_req.needs_confirmation
  /\ fn_out.needs_confirmation
  /\ fn_out.quantity = 50

\* the message gives one quantity with a unit word and, elsewhere, exactly one
\* other number that no budget or currency word accompanies
AnchoredQuantityAndBareNumber(message, p) ==
  /\ p \in UnitQuantities
  /\ Contains(message, p)
  /\ Len(all_numbers(message)) = 2
  /\ \A w \in WordBudgets : ~Contains(message, w)

\* C27: for every message with a quantity keyword attached to one number and
\* one other bare number elsewhere, extract gives the keyword-anchored number
\* to quantity, whether it comes first or second in the text, and
\* needs_confirmation is false.
C27_AnchoredQuantityWins ==
  ex_result.done
    => \A p \in UnitQuantities :
         AnchoredQuantityAndBareNumber(ex_message, p)
           => /\ ex_result.extracted.quantity = ToInt(all_numbers(p)[1].text)
              /\ ~ex_result.extracted.needs_confirmation

\* the bare number comes first, the anchored quantity second: "45\n50 pieces"
C27_Witness ==
  /\ ex_result.done
  /\ \E p \in UnitQuantities, b \in BareNumbers :
       /\ ex_message = Join(<<b, p>>, <<"\n">>)
       /\ AnchoredQuantityAndBareNumber(ex_message, p)
       /\ ex_result.extracted.quantity = ToInt(all_numbers(p)[1].text)
       /\ ex_result.extracted.quantity # ToInt(all_numbers(ex_message)[1].text)
       /\ ~ex_result.extracted.needs_confirmation
\* the last operation was a chat turn that started after a confirmation prompt,
\* with a reply that is not affirmative and from which the extractor takes both
\* a quantity and a budget
CorrectionTurn ==
  /\ turn.op = "chat"
  /\ ~turn.before.needs_human_handoff
  /\ turn.before.current_stage = "awaiting_confirmation"
  /\ Ran("extract_requirements")
  /\ ~is_affirmative(turn.last_msg)
  /\ extraction(turn.last_msg).extracted.quantity # None
  /\ extraction(turn.last_msg).extracted.budget_per_piece # None

\* C28: after a confirmation prompt, a reply that is not affirmative and carries
\* new values for quantity and budget is a correction: at the end of the turn
\* the requirement record holds the newly sent quantity and budget, and a
\* further confirmation prompt shows the new values.
C28_CorrectionReplacesValues ==
  CorrectionTurn
    => LET sent == extraction(turn.last_msg).extracted
       IN /\ requirements.quantity = sent.quantity
          /\ requirements.budget_per_piece = sent.budget_per_piece
          /\ (result.reply.kind = "confirm"
                => /\ result.reply.quantity = sent.quantity
                   /\ result.reply.budget = sent.budget_per_piece)
(***************************************************************************)
(* Properties of the classifier step (specification SpecClassify)          *)
(***************************************************************************)
\* the invocation has run and its message got to the call of the language model
ReachedClassifier ==
  /\ fn_out # NotCalled
  /\ calls_llm(graph_input(fn_in.checkpoint), fn_in.last_msg)

\* the answer names browse, product or greeting
NamesBrowse(intent_text) ==
  \/ Contains(intent_text, <<"b","r","o","w","s","e">>)
  \/ Contains(intent_text, L_product)
  \/ Contains(intent_text, L_greeting)

\* the answer names track_order, ask_question or complaint
NamesHandoff(intent_text) ==
  \/ Contains(intent_text, L_track_order)
  \/ Contains(intent_text, L_ask_question)
  \/ Contains(intent_text, L_complaint)

\* C29: when a message reaches the classifier step, the turn continues to
\* requirement_extraction only if the answer names browse, product or greeting
\* and none of track_order, ask_question, complaint; every other answer,
\* unparseable text included, ends the turn in handoff with the reason
\* llm_classification.
C29_ClassifierOutcome ==
  ReachedClassifier
    => IF NamesBrowse(fn_in.intent_text) /\ ~NamesHandoff(fn_in.intent_text)
       THEN /\ fn_out.after_intent = "requirement_extraction"
            /\ Len(fn_out.path) >= 2
            /\ fn_out.path[2] = "extract_requirements"
       ELSE /\ fn_out.path = <<"classify_intent">>
            /\ fn_out.state = handoff(graph_input(fn_in.checkpoint), "llm_classification")

\* an answer that names both a product and a complaint ended the turn in handoff
C29_Witness ==
  /\ ReachedClassifier
  /\ fn_in.last_msg = M_gifts
  /\ fn_in.intent_text = L_product_complaint
  /\ fn_out.path = <<"classify_intent">>
  /\ fn_out.state.needs_human_handoff
  /\ fn_out.state.handoff_reason = "llm_classification"
\* the required fields of a record that are not set, in the order quantity,
\* budget, timeline, location, under the names the bot uses for them
UnsetFields(req) ==
  (IF req.quantity = None THEN <<"Quantity">> ELSE <<>>)
  \o (IF req.budget_per_piece = None THEN <<"Budget per piece">> ELSE <<>>)
  \o (IF req.timeline = NoText THEN <<"When needed">> ELSE <<>>)
  \o (IF req.location = NoText THEN <<"Delivery location">> ELSE <<>>)

\* the turn added the customer's message and exactly one assistant message
OneMessage(content) ==
  messages = turn.before.messages \o <<HumanMessage, AIMessage(content)>>

\* C30: ask_confirmation: when needs_confirmation is true and quantity and
\* budget are both set, it emits the confirmation prompt showing both values and
\* sets the stage to awaiting_confirmation; in every other case it emits one
\* message naming all missing fields in the order quantity, budget, timeline,
\* location and sets the stage to requirement_extraction.
C30_PromptOrMissingFields ==
  (turn.op = "chat" /\ Ran("ask_confirmation"))
    => IF /\ requirements.needs_confirmation
          /\ requirements.quantity # None
          /\ requirements.budget_per_piece # None
       THEN /\ OneMessage(Content("confirm", requirements.quantity,
                                  requirements.budget_per_piece, <<>>))
            /\ current_stage = "awaiting_confirmation"
       ELSE /\ OneMessage(Content("missing", None, None, UnsetFields(requirements)))
            /\ current_stage = "requirement_extraction"
\* the stages a completed turn can end in
EndStages == {"intent_classification", "requirement_extraction", "awaiting_confirmation",
              "handoff"}

\* C31: over any sequence of chat turns, current_stage is never
\* product_selection or order_confirmation and selected_product is never set;
\* at the end of every completed turn current_stage is one of
\* intent_classification, requirement_extraction, awaiting_confirmation, handoff.
C31_StagesOfCompletedTurns ==
  /\ current_stage \notin {"product_selection", "order_confirmation"}
  /\ selected_product = "None"
  /\ turn.op = "chat" => current_stage \in EndStages
\* a turn that ran the whole path to recommend and ended in handoff, and the
\* turn before it ended in awaiting_confirmation
C31_Witness ==
  /\ turn.op = "chat"
  /\ Ran("search_products")
  /\ Ran("recommend")
  /\ turn.before.current_stage = "awaiting_confirmation"
  /\ current_stage = "handoff"
  /\ selected_product = "None"
\* the tier of a number of days: at most 2 critical, at most 7 high, at most 14
\* medium, else low
Tier(days) ==
  IF days <= 2 THEN "critical"
  ELSE IF days <= 7 THEN "high"
  ELSE IF days <= 14 THEN "medium"
  ELSE "low"

\* the function was applied to a timeline that is no canonical code
ResolvedOtherText ==
  /\ fn_out # NotCalled
  /\ fn_in.name = "calculate_timeline_urgency"
  /\ \A c \in CanonicalCodes : lower(fn_in.timeline) # c[1]

\* C32: for every timeline string that is not a canonical code the function
\* returns a result: a parsed date lying in the past is rolled forward one year,
\* days_remaining is never negative, the tier is the threshold function of
\* days_remaining, and text that cannot be parsed gives 7 days / medium.
C32_ResolveIsTotal ==
  ResolvedOtherText
    => /\ fn_out.days_remaining >= 0
       /\ fn_out.days_remaining = fn_out.delivery_date - fn_in.today
       /\ IF fn_in.parsed = ParseFails
          THEN fn_out.days_remaining = 7 /\ fn_out.urgency_level = "medium"
          ELSE /\ fn_out.urgency_level = Tier(fn_out.days_remaining)
               /\ fn_out.delivery_date = IF fn_in.parsed < fn_in.today
                                         THEN fn_in.parsed + YearDays
                                         ELSE fn_in.parsed
\* the canonical code of the first keyword of the timeline table that the
\* message contains, NoText when it contains none
KeywordCode(message) == timeline_keyword(lower(message))

\* C33: if the message contains a timeline keyword of the table, extract returns
\* that keyword's canonical code as the timeline; a date elsewhere in the same
\* message does not replace the code.
C33_KeywordBeforeDate ==
  (ex_result.done /\ KeywordCode(ex_message) # NoText)
    => ex_result.extracted.timeline = KeywordCode(ex_message)

\* the text of a date match, taken from the original message
OriginalText(message, match) == SubSeq(message, match.start, match.end)

\* C34: when a date-shaped pattern matches, the timeline stored by extract is
\* the matched substring of the original message character for character, with
\* its original casing and spacing ("Feb 22" stays "Feb 22").
C34_DateTextIsPreserved ==
  (ex_result.done /\ date_matches(lower(ex_message)) # <<>>)
    => \E k \in 1..Len(date_matches(lower(ex_message))) :
         ex_result.extracted.timeline
           = OriginalText(ex_message, date_matches(lower(ex_message))[k])
\* the last operation was a chat turn that started after a confirmation prompt
\* with a reply that is not affirmative
UnconfirmedReply ==
  /\ turn.op = "chat"
  /\ ~turn.before.needs_human_handoff
  /\ turn.before.current_stage = "awaiting_confirmation"
  /\ turn.before.requirements.needs_confirmation
  /\ ~is_affirmative(turn.last_msg)

\* the turn searched products with the quantity and budget of the prompt
SearchedWithPromptValues ==
  /\ Ran("validate")
  /\ Ran("search_products")
  /\ requirements.quantity = turn.before.requirements.quantity
  /\ requirements.budget_per_piece = turn.before.requirements.budget_per_piece

\* C35: quantity and budget that were filled positionally and flagged
\* needs_confirmation are never used for a product search unless the customer
\* sent an affirmative reply to the confirmation prompt: from
\* awaiting_confirmation no message that is not affirmative leads to validation
\* and product search with the unconfirmed values.
C35_NoSearchWithoutConfirmation ==
  UnconfirmedReply => ~SearchedWithPromptValues
\* C36: at the end of every turn, needs_human_handoff = true if and only if
\* current_stage = handoff.
C36_HandoffFlagMatchesStage ==
  turn.op = "chat" => (needs_human_handoff <=> current_stage = "handoff")
\* C37: every assistant message that a turn appends to the conversation history
\* is returned to the caller in that turn's result: no turn records a message
\* as sent while the caller receives reply = None.
C37_AppendedMessageIsReturned ==
  (turn.op = "chat" /\ AICount(messages) > AICount(turn.before.messages))
    => /\ result.reply # NoContent
       /\ result.reply = latest_bot_response(messages)
\* C38: in one extraction a single numeric token of the message is never
\* assigned to both quantity and budget: a message with exactly one number fills
\* at most one of the two fields.
C38_OneNumberOneField ==
  (ex_result.done /\ Len(all_numbers(ex_message)) = 1)
    => \/ ex_result.extracted.quantity = None
       \/ ex_result.extracted.budget_per_piece = None
\* the last operation was a chat turn that started after a confirmation prompt
\* with an affirmative reply
AffirmativeReply ==
  /\ turn.op = "chat"
  /\ ~turn.before.needs_human_handoff
  /\ turn.before.current_stage = "awaiting_confirmation"
  /\ is_affirmative(turn.last_msg)

\* C39: an affirmative reply in awaiting_confirmation changes only
\* needs_confirmation in the requirement record: quantity, budget, timeline,
\* location and preferences are the same after the turn as before it, for every
\* accepted spelling of the affirmative word.
C39_ConfirmationKeepsValues ==
  AffirmativeReply
    => /\ requirements.quantity = turn.before.requirements.quantity
       /\ requirements.budget_per_piece = turn.before.requirements.budget_per_piece
       /\ requirements.timeline = turn.before.requirements.timeline
       /\ requirements.location = turn.before.requirements.location
       /\ requirements.preferences = turn.before.requirements.preferences
\* the result of the last turn carries the product list or the product-list marker
ProductsReturned ==
  \/ result.reply.kind = SEND_PRODUCT_IMAGES_WITH_SUMMARY
  \/ ~result.products.is_none

\* C40: within one conversation (between resets) the product list is returned
\* to the caller in at most one turn: the turn after the one that returned
\* products returns no product list and no product-list marker, unless it is a
\* reset.
C40_ProductsReturnedOnce ==
  [][(ProductsReturned /\ turn'.op # "reset") => ~ProductsReturned']_vars

=============================================================================
